---- MODULE Spec2Model ----
(***************************************************************************)
(* LED PWM Driver Mixer: the persistence scheduler (nvs_manager.c), the    *)
(* orchestrating main loop (main.c), the quadrature decoder (encoder.c),   *)
(* the touch sensor (touch_sensor.c) and the LEDC driver                   *)
(* (pwm_controller.c), as state machines.                                  *)
(***************************************************************************)
EXTENDS Integers, Sequences, FiniteSets, TLC

(***************************************************************************)
(* Program constants (config.h).                                           *)
(***************************************************************************)
CONFIG_FLASH_WRITE_DEBOUNCE == 5000
CONFIG_ENCODER_INITIAL_POS == 155
CONFIG_NVS_DEFAULT_PWM_VALUE == CONFIG_ENCODER_INITIAL_POS
CONFIG_NVS_DEFAULT_PWM_ENABLE == TRUE
FLASH_WRITE_DEBOUNCE_MS == CONFIG_FLASH_WRITE_DEBOUNCE
CONFIG_MAIN_LOOP_INTERVAL == 50
CONFIG_NVS_CHECK_INTERVAL == 200
CONFIG_NVS_CHECK_COUNT ==
    CONFIG_NVS_CHECK_INTERVAL \div CONFIG_MAIN_LOOP_INTERVAL
ENCODER_POS_MIN == 0
ENCODER_POS_MAX == 255
CONFIG_TOUCH_DEBOUNCE_COUNT == 5
CONFIG_PWM_MIN_DUTY == 0
CONFIG_PWM_MAX_DUTY == 255
SCALE_FACTORS == <<1, 2, 5>>
NUM_SCALES == 3

(***************************************************************************)
(* Bounds of the model.                                                    *)
(*  TickBits    width of the millisecond tick counter.  The program's      *)
(*              counter is a uint32_t; the model keeps the modular         *)
(*              arithmetic and narrows the word so that a wrap is          *)
(*              reachable.                                                 *)
(*  MaxAdvances number of times the clock is advanced in a behaviour.      *)
(*  InputWindowIters  main-loop iterations during which the inputs of the  *)
(*              orchestrator (touch, encoder) change.                      *)
(*  MaxIdleIters  main-loop iterations that follow with the inputs at rest.*)
(*  MaxTouches  confirmed touch-down events in a behaviour.                *)
(*  MaxEncIters iterations of the encoder task's loop in a behaviour.      *)
(*  MaxApiCalls calls of the encoder's public API from other tasks.        *)
(*  MaxTouchPolls  polls of the touch task in a behaviour.                 *)
(*  MaxTouchResets calls of touch_sensor_reset_touch_count.                *)
(*  MaxRestarts resets of the device in a behaviour.                       *)
(***************************************************************************)
TickBits == 15
MaxAdvances == 2
InputWindowIters == 4
MaxIdleIters == 104
MaxTouches == 2
MaxEncIters == 3
MaxApiCalls == 3
MaxTouchPolls == 15
MaxTouchResets == 1
MaxRestarts == 1

TICK_MOD == 2 ^ TickBits

\* Amounts by which time advances between two calls of the API.
Deltas == {1, CONFIG_FLASH_WRITE_DEBOUNCE - 1, CONFIG_FLASH_WRITE_DEBOUNCE}

\* Tick value at the start of a behaviour: just booted, or up for long
\* enough that the counter wraps within the next debounce window.
StartTicks == {0, TICK_MOD - (CONFIG_FLASH_WRITE_DEBOUNCE \div 2)}

\* Brightness values and records handed to nvs_manager_save_led_state.
BrightnessInputs == {CONFIG_NVS_DEFAULT_PWM_VALUE, 200}
LedState(en, val) == [pwm_enabled |-> en, pwm_value |-> val]
SaveInputs == {LedState(en, val) : en \in BOOLEAN, val \in BrightnessInputs}
DefaultLedState ==
    LedState(CONFIG_NVS_DEFAULT_PWM_ENABLE, CONFIG_NVS_DEFAULT_PWM_VALUE)

\* Positions the encoder is turned to while the orchestrator runs.
AppPositions == {CONFIG_ENCODER_INITIAL_POS, 200}

\* A key that is not present in the NVS namespace.
NoKey == 0 - 1
EmptyStore == [pwm_en |-> NoKey, pwm_val |-> NoKey]

\* Contents of the durable store at the first boot.
InitialStores ==
    {EmptyStore, [pwm_en |-> 1, pwm_val |-> 155], [pwm_en |-> 0, pwm_val |-> 200]}

\* Contents of the durable store at a boot that follows another firmware
\* or a corruption: pwm_val is any uint32_t.
ForeignStores ==
    {[pwm_en |-> 1, pwm_val |-> 300], [pwm_en |-> 0, pwm_val |-> 300]}

\* Duties requested from pwm_controller.c: the argument is a uint32_t.
PwmDuties == {CONFIG_PWM_MIN_DUTY, 100, CONFIG_PWM_MAX_DUTY,
              CONFIG_PWM_MAX_DUTY + 1, 70000}

\* The LEDC call that fails in pwm_controller_init and in a set function, if
\* any does.
LedcInitOutcomes == {"none", "timer", "channel1", "channel2"}
LedcSetOutcomes == {"none", "set", "update"}
LedcSetBothOutcomes == {"none", "set1", "update1", "set2", "update2"}

\* Outcome of one nvs_get_*: the key was read, ESP_ERR_NVS_NOT_FOUND, or
\* another error.
ReadOutcomes == {"ok", "not_found", "fail"}

VARIABLES
    \* nvs_manager.c statics
    last_saved_state, state_cached, pending_state, pending_timestamp,
    pending_write,
    \* the NVS partition: entries on the medium, and entries set through a
    \* handle that have not reached the medium yet
    nvs_flash, nvs_cache,
    \* xTaskGetTickCount() * portTICK_PERIOD_MS
    tick_ms,
    \* position inside app start-up and inside nvs_manager_commit_write
    boot_pc, commit_pc,
    \* value returned by the last nvs_manager_check_pending_write
    check_result,
    \* history variables (not program state)
    clock, advances, last_op, last_req, req_at, last_write_at, write_gap,
    stable_rec,
    \* history of the current burst of save requests, and the candidate
    \* that the last save request displaced; the candidate with which the
    \* commit in progress was entered; the structure filled in by the call
    \* of nvs_manager_get_last_state that has just returned
    last_req_at, burst_ok, burst_writes, superseded, commit_arg, got_state,
    \* main.c: app_state_t of app_main and the position inside its loop
    app_pwm_enabled, app_current_position, app_last_touch_count,
    app_nvs_check_counter, app_pc,
    \* history of the orchestrator: when its (enabled, brightness) last
    \* changed, whether a store operation has failed, and the number of
    \* toggles of the enable flag performed, and the number of resets of
    \* the device
    app_changed_at, io_failed, app_toggles, restarts,
    \* encoder.c, touch_sensor.c: the mutexes that have been created
    mutexes,
    \* touch_sensor.c: the confirmed touch-down counter
    touch_event_count,
    \* encoder.c: the file-scope state
    encoder_position, button_press_count, button_pressed, last_clk_state,
    last_dt_state, current_scale_index,
    \* encoder_task: its position and the local last_button_state
    enc_pc, last_button_state,
    \* encoder_update_position: its locals, kept until the task's next
    \* iteration begins
    clk_state, dt_state, scale, direction, old_pos,
    \* history: iterations of the task, calls of the API, advances of the
    \* scale index, the levels last read from the phase lines (by
    \* encoder_init or by a poll), the samplings of the phase lines made by
    \* encoder_init
    enc_iters, api_calls, scale_steps, phase_seen, init_reads,
    \* touch_sensor.c: the file-scope state, the task's position and its
    \* local debounce_counter
    sensor_touched, last_sensor_state, debounce_counter, touch_pc,
    \* history: the last raw samples, polls since the last confirmed edge,
    \* polls and count resets so far, whether a release was confirmed since
    \* the last touch-down event
    raw_window, since_edge, touch_polls, touch_resets, released,
    \* pwm_controller.c: the cached duties
    current_duty_ch1, current_duty_ch2,
    \* the LEDC peripheral: the duty each channel outputs
    ledc_duty_ch1, ledc_duty_ch2,
    \* history: whether pwm_controller_init has run, and the last call into
    \* pwm_controller.c with its argument and return value
    pwm_pc, pwm_op, pwm_req, pwm_ret

nvs_vars == <<last_saved_state, state_cached, pending_state,
              pending_timestamp, pending_write, nvs_flash, nvs_cache,
              tick_ms, boot_pc, commit_pc, check_result>>
hist_vars == <<clock, advances, last_op, last_req, req_at, last_write_at,
               write_gap, stable_rec>>
burst_vars == <<last_req_at, burst_ok, burst_writes, superseded, commit_arg,
                got_state>>
app_vars == <<app_pwm_enabled, app_current_position, app_last_touch_count,
              app_nvs_check_counter, app_pc, app_changed_at, io_failed,
              app_toggles, restarts, mutexes, touch_event_count>>
enc_task_vars == <<button_press_count, button_pressed, last_clk_state,
                   last_dt_state, current_scale_index, enc_pc,
                   last_button_state, clk_state, dt_state, scale, direction,
                   old_pos, enc_iters, api_calls, scale_steps, phase_seen,
                   init_reads>>
enc_vars == <<encoder_position, enc_task_vars>>
touch_vars == <<sensor_touched, last_sensor_state, debounce_counter,
                touch_pc, raw_window, since_edge, touch_polls, touch_resets,
                released>>
pwm_vars == <<current_duty_ch1, current_duty_ch2, ledc_duty_ch1,
              ledc_duty_ch2, pwm_pc, pwm_op, pwm_req, pwm_ret>>
vars == <<nvs_vars, hist_vars, burst_vars, app_vars, enc_vars, touch_vars,
          pwm_vars>>

(***************************************************************************)
(* The durable key-value store.                                            *)
(***************************************************************************)
\* What a reader of the namespace sees: the handle's entries over the medium.
StoreView(flash, cache) ==
    [pwm_en  |-> IF cache.pwm_en # NoKey THEN cache.pwm_en ELSE flash.pwm_en,
     pwm_val |-> IF cache.pwm_val # NoKey THEN cache.pwm_val ELSE flash.pwm_val]

\* (uint8_t)state->pwm_enabled and (bool)pwm_enabled
BoolToU8(b) == IF b THEN 1 ELSE 0
U8ToBool(u) == u # 0

\* The record a start-up load obtains from a store (absent keys default).
RecordOf(store) ==
    LedState(U8ToBool(IF store.pwm_en = NoKey
                      THEN BoolToU8(CONFIG_NVS_DEFAULT_PWM_ENABLE)
                      ELSE store.pwm_en),
             IF store.pwm_val = NoKey THEN CONFIG_NVS_DEFAULT_PWM_VALUE
                                      ELSE store.pwm_val)

\* The record the medium holds, i.e. what survives a stop of the process.
DurableRecord == RecordOf(nvs_flash)

(***************************************************************************)
(* nvs_manager_load_led_state(state): `state` is the caller's structure on *)
(* entry; the result is the return value and the structure on return.      *)
(***************************************************************************)
nvs_manager_load_led_state(state, open_ok, r_en, r_val, store) ==
    IF ~open_ok
    THEN [ret |-> 0, state |-> DefaultLedState]
    ELSE IF r_en = "fail"
    THEN [ret |-> -1, state |-> state]
    ELSE LET en == U8ToBool(IF r_en = "ok" THEN store.pwm_en
                            ELSE BoolToU8(CONFIG_NVS_DEFAULT_PWM_ENABLE))
             s1 == [state EXCEPT !.pwm_enabled = en]
         IN IF r_val = "fail"
            THEN [ret |-> -1, state |-> s1]
            ELSE [ret |-> 0,
                  state |-> [s1 EXCEPT !.pwm_value =
                                IF r_val = "ok" THEN store.pwm_val
                                ELSE CONFIG_NVS_DEFAULT_PWM_VALUE]]

\* The outcomes a read of the two keys can have on a given store.
ReadPossible(r, key) ==
    \/ r = "fail"
    \/ r = "ok" /\ key # NoKey
    \/ r = "not_found" /\ key = NoKey

(***************************************************************************)
(* nvs_manager_get_last_state                                              *)
(***************************************************************************)
\* Variant that hands out the pending candidate.
nvs_manager_get_last_state_pending ==
    IF pending_write THEN pending_state
    ELSE IF ~state_cached THEN DefaultLedState ELSE last_saved_state

nvs_manager_get_last_state ==
    IF ~state_cached THEN DefaultLedState ELSE last_saved_state

(***************************************************************************)
(* nvs_manager_save_led_state(state) called at tick value `t` with the     *)
(* pending write `pending` in place: the pending write on return.          *)
(***************************************************************************)
Pending(st, ts, active) ==
    [pending_state |-> st, pending_timestamp |-> ts, pending_write |-> active]

CurrentPending == Pending(pending_state, pending_timestamp, pending_write)

SameAsLastSaved(state) ==
    /\ state_cached
    /\ last_saved_state.pwm_enabled = state.pwm_enabled
    /\ last_saved_state.pwm_value = state.pwm_value

SameAsPending(pending, state) ==
    /\ pending.pending_write
    /\ pending.pending_state.pwm_enabled = state.pwm_enabled
    /\ pending.pending_state.pwm_value = state.pwm_value

\* Variants of the request with a slip in it: the comparison with the
\* committed baseline left out, and the request timestamp not taken.
nvs_manager_save_led_state_no_baseline(pending, state, t) ==
    IF SameAsPending(pending, state) THEN pending
    ELSE Pending(state, t, TRUE)

nvs_manager_save_led_state_no_duplicate_check(pending, state, t) ==
    IF SameAsLastSaved(state) THEN pending
    ELSE Pending(state, t, TRUE)

nvs_manager_save_led_state_keeps_candidate(pending, state, t) ==
    IF SameAsLastSaved(state) THEN pending
    ELSE IF pending.pending_write THEN pending
    ELSE Pending(state, t, TRUE)

nvs_manager_save_led_state_stale_timestamp(pending, state, t) ==
    IF SameAsLastSaved(state) THEN pending
    ELSE IF SameAsPending(pending, state) THEN pending
    ELSE Pending(state, pending.pending_timestamp, TRUE)

nvs_manager_save_led_state(pending, state, t) ==
    IF SameAsLastSaved(state) THEN pending
    ELSE IF SameAsPending(pending, state) THEN pending
    ELSE Pending(state, t, TRUE)

(***************************************************************************)
(* nvs_manager_check_pending_write: the debounce test, and the pending     *)
(* flag once nvs_manager_commit_write has returned `result`.               *)
(***************************************************************************)
\* Variant without the modular difference: nothing has elapsed when the
\* counter reads less than the timestamp.
ElapsedTime_no_wrap(current_time, timestamp) ==
    IF current_time >= timestamp THEN current_time - timestamp ELSE 0

\* uint32_t elapsed_time = current_time - pending_timestamp
ElapsedTime(current_time, timestamp) == (current_time - timestamp) % TICK_MOD

\* Variant with a strict comparison.
DebounceElapsed_strict(current_time, timestamp) ==
    ElapsedTime(current_time, timestamp) > FLASH_WRITE_DEBOUNCE_MS

DebounceElapsed(current_time, timestamp) ==
    ElapsedTime(current_time, timestamp) >= FLASH_WRITE_DEBOUNCE_MS

\* The check goes on to nvs_manager_commit_write.
CheckDue(pending, current_time) ==
    /\ pending.pending_write
    /\ DebounceElapsed(current_time, pending.pending_timestamp)

\* Variant that never clears the flag.
PendingAfterCommit_never_cleared(result) == TRUE

PendingAfterCommit(result) == FALSE

(***************************************************************************)
(* History helpers.                                                        *)
(***************************************************************************)
NoRequest == LedState(FALSE, NoKey)
NoWrite == 0 - 1
Min(a, b) == IF a < b THEN a ELSE b
Max(a, b) == IF a > b THEN a ELSE b

(***************************************************************************)
(* Initial state: the static initialisers of nvs_manager.c, before         *)
(* app_main has run.                                                       *)
(***************************************************************************)
NvsStatics ==
    /\ last_saved_state = DefaultLedState
    /\ state_cached = FALSE
    /\ pending_state = DefaultLedState
    /\ pending_timestamp = 0
    /\ pending_write = FALSE

InitNvs ==
    /\ NvsStatics
    /\ nvs_flash \in InitialStores
    /\ nvs_cache = EmptyStore
    /\ tick_ms \in StartTicks
    /\ boot_pc = "start"
    /\ commit_pc = "idle"
    /\ check_result = 0

InitHist ==
    /\ clock = 0
    /\ advances = 0
    /\ last_op = "boot"
    /\ req_at = 0
    /\ last_req = NoRequest
    /\ last_write_at = NoWrite
    /\ write_gap = NoWrite
    /\ stable_rec = RecordOf(nvs_flash)

InitBurst ==
    /\ last_req_at = 0
    /\ burst_ok = FALSE
    /\ burst_writes = 0
    /\ superseded = NoRequest
    /\ commit_arg = NoRequest
    /\ got_state = NoRequest

\* main.c: `app_state_t state = {0}` and the statics of the input modules.
InitApp ==
    /\ app_pwm_enabled = FALSE
    /\ app_current_position = 0
    /\ app_last_touch_count = 0
    /\ app_nvs_check_counter = 0
    /\ app_pc = "init"
    /\ app_changed_at = 0
    /\ io_failed = FALSE
    /\ app_toggles = 0
    /\ restarts = 0
    /\ mutexes = {}
    /\ touch_event_count = 0

InitEncoder ==
    /\ encoder_position = CONFIG_ENCODER_INITIAL_POS
    /\ button_press_count = 0
    /\ button_pressed = FALSE
    /\ last_clk_state = 0
    /\ last_dt_state = 0
    /\ current_scale_index = 0
    /\ enc_pc = "init"
    /\ last_button_state = FALSE
    /\ clk_state = 0
    /\ dt_state = 0
    /\ scale = 0
    /\ direction = 0
    /\ old_pos = 0
    /\ enc_iters = 0
    /\ api_calls = 0
    /\ scale_steps = 0
    /\ phase_seen = <<0, 0>>
    /\ init_reads = 0

InitTouchSensor ==
    /\ sensor_touched = FALSE
    /\ last_sensor_state = FALSE
    /\ debounce_counter = 0
    /\ touch_pc = "init"
    /\ raw_window = <<>>
    /\ since_edge = 0
    /\ touch_polls = 0
    /\ touch_resets = 0
    /\ released = FALSE

\* pwm_controller.c: the statics; the channels output nothing after reset.
InitPwm ==
    /\ current_duty_ch1 = 0
    /\ current_duty_ch2 = 0
    /\ ledc_duty_ch1 = 0
    /\ ledc_duty_ch2 = 0
    /\ pwm_pc = "start"
    /\ pwm_op = "none"
    /\ pwm_req = 0
    /\ pwm_ret = 0

Init ==
    /\ InitNvs /\ InitHist /\ InitBurst /\ InitApp /\ InitEncoder
    /\ InitTouchSensor /\ InitPwm

(***************************************************************************)
(* pwm_controller.c.  Each function is given the LEDC call that fails, if  *)
(* any: a function returns -1 at the first failure, before it updates the  *)
(* cached duty.  ledc_set_duty followed by ledc_update_duty makes the      *)
(* channel output the duty.                                                *)
(***************************************************************************)
\* Variant that passes the duty through.
pwm_clamp_duty_unclamped(duty) == duty

pwm_clamp_duty(duty) ==
    IF duty > CONFIG_PWM_MAX_DUTY THEN CONFIG_PWM_MAX_DUTY ELSE duty

pwm_controller_init(failed) ==
    /\ ledc_duty_ch1' = IF failed \in {"none", "channel2"}
                        THEN CONFIG_PWM_MIN_DUTY ELSE ledc_duty_ch1
    /\ ledc_duty_ch2' = IF failed = "none"
                        THEN CONFIG_PWM_MIN_DUTY ELSE ledc_duty_ch2
    /\ current_duty_ch1' = IF failed = "none"
                           THEN CONFIG_PWM_MIN_DUTY ELSE current_duty_ch1
    /\ current_duty_ch2' = IF failed = "none"
                           THEN CONFIG_PWM_MIN_DUTY ELSE current_duty_ch2
    /\ pwm_pc' = IF failed = "none" THEN "run" ELSE "failed"
    /\ pwm_op' = "init"
    /\ pwm_req' = CONFIG_PWM_MIN_DUTY
    /\ pwm_ret' = IF failed = "none" THEN 0 ELSE 0 - 1

pwm_controller_set_brightness(requested, failed) ==
    LET duty == pwm_clamp_duty(requested)
    IN /\ ledc_duty_ch1' = IF failed \in {"none", "set2", "update2"}
                           THEN duty ELSE ledc_duty_ch1
       /\ ledc_duty_ch2' = IF failed = "none" THEN duty ELSE ledc_duty_ch2
       /\ current_duty_ch1' = IF failed = "none" THEN duty
                              ELSE current_duty_ch1
       /\ current_duty_ch2' = IF failed = "none" THEN duty
                              ELSE current_duty_ch2
       /\ pwm_op' = "both"
       /\ pwm_req' = requested
       /\ pwm_ret' = IF failed = "none" THEN 0 ELSE 0 - 1
       /\ UNCHANGED pwm_pc

pwm_controller_set_brightness_ch1(requested, failed) ==
    LET duty == pwm_clamp_duty(requested)
    IN /\ ledc_duty_ch1' = IF failed = "none" THEN duty ELSE ledc_duty_ch1
       /\ current_duty_ch1' = IF failed = "none" THEN duty
                              ELSE current_duty_ch1
       /\ pwm_op' = "ch1"
       /\ pwm_req' = requested
       /\ pwm_ret' = IF failed = "none" THEN 0 ELSE 0 - 1
       /\ UNCHANGED <<ledc_duty_ch2, current_duty_ch2, pwm_pc>>

pwm_controller_set_brightness_ch2(requested, failed) ==
    LET duty == pwm_clamp_duty(requested)
    IN /\ ledc_duty_ch2' = IF failed = "none" THEN duty ELSE ledc_duty_ch2
       /\ current_duty_ch2' = IF failed = "none" THEN duty
                              ELSE current_duty_ch2
       /\ pwm_op' = "ch2"
       /\ pwm_req' = requested
       /\ pwm_ret' = IF failed = "none" THEN 0 ELSE 0 - 1
       /\ UNCHANGED <<ledc_duty_ch1, current_duty_ch1, pwm_pc>>

pwm_controller_get_brightness_ch1 == current_duty_ch1
pwm_controller_get_brightness_ch2 == current_duty_ch2

PwmOther == <<nvs_vars, hist_vars, burst_vars, app_vars, enc_vars, touch_vars>>

PwmInit ==
    /\ pwm_pc = "start"
    /\ \E failed \in LedcInitOutcomes : pwm_controller_init(failed)
    /\ UNCHANGED PwmOther

PwmSetBrightness ==
    /\ pwm_pc = "run"
    /\ \E requested \in PwmDuties, failed \in LedcSetBothOutcomes :
          pwm_controller_set_brightness(requested, failed)
    /\ UNCHANGED PwmOther

PwmSetBrightnessCh1 ==
    /\ pwm_pc = "run"
    /\ \E requested \in PwmDuties, failed \in LedcSetOutcomes :
          pwm_controller_set_brightness_ch1(requested, failed)
    /\ UNCHANGED PwmOther

PwmSetBrightnessCh2 ==
    /\ pwm_pc = "run"
    /\ \E requested \in PwmDuties, failed \in LedcSetOutcomes :
          pwm_controller_set_brightness_ch2(requested, failed)
    /\ UNCHANGED PwmOther

NextPwm ==
    \/ PwmInit
    \/ PwmSetBrightness
    \/ PwmSetBrightnessCh1
    \/ PwmSetBrightnessCh2

\* pwm_controller.c under any sequence of calls of its API after
\* pwm_controller_init.
SpecPwm == Init /\ [][NextPwm]_vars

(***************************************************************************)
(* nvs_manager_init.  nvs_flash_init succeeds, fails, or reports a         *)
(* partition that is erased and initialised again.  The namespace can be   *)
(* opened for reading only when it holds an entry.                         *)
(***************************************************************************)
FlashInitOutcomes == {"ok", "erased", "fail"}

nvs_manager_init(flash_init, open_ok, r_en, r_val) ==
    /\ boot_pc = "start"
    /\ boot_pc' = "run"
    /\ last_op' = "init"
    /\ IF flash_init = "fail"
       THEN UNCHANGED <<last_saved_state, state_cached, nvs_flash, stable_rec>>
       ELSE LET store == IF flash_init = "erased" THEN EmptyStore ELSE nvs_flash
                load == nvs_manager_load_led_state(last_saved_state, open_ok,
                                                   r_en, r_val, store)
            IN /\ open_ok => store # EmptyStore
               /\ ReadPossible(r_en, store.pwm_en)
               /\ ReadPossible(r_val, store.pwm_val)
               /\ nvs_flash' = store
               /\ last_saved_state' = load.state
               /\ state_cached' = TRUE
               /\ stable_rec' = IF flash_init = "erased" THEN RecordOf(store)
                                ELSE stable_rec
    /\ UNCHANGED <<pending_state, pending_timestamp, pending_write, nvs_cache,
                   tick_ms, commit_pc, check_result>>
    /\ UNCHANGED <<clock, advances, last_req, req_at, last_write_at, write_gap>>

NvsInit ==
    \E flash_init \in FlashInitOutcomes, open_ok \in BOOLEAN,
       r_en \in ReadOutcomes, r_val \in ReadOutcomes :
        nvs_manager_init(flash_init, open_ok, r_en, r_val)

(***************************************************************************)
(* A caller invokes nvs_manager_save_led_state(state).                     *)
(***************************************************************************)
\* The body of the function, whenever it runs.
SaveRequest(state) ==
    /\ boot_pc = "run"
    /\ LET r == nvs_manager_save_led_state(CurrentPending, state, tick_ms)
       IN /\ pending_state' = r.pending_state
          /\ pending_timestamp' = r.pending_timestamp
          /\ pending_write' = r.pending_write
          /\ req_at' = IF r # CurrentPending THEN clock ELSE req_at
    /\ last_op' = "save"
    /\ last_req' = state
    /\ UNCHANGED <<last_saved_state, state_cached, nvs_flash, nvs_cache,
                   tick_ms, boot_pc, commit_pc, check_result>>
    /\ UNCHANGED <<clock, advances, last_write_at, write_gap, stable_rec>>

\* The call made by the task that also runs the checks: no commit is in
\* progress.
SaveLedState(state) ==
    /\ commit_pc = "idle"
    /\ SaveRequest(state)

Save == \E state \in SaveInputs : SaveLedState(state)

(***************************************************************************)
(* Time passes between two calls.                                          *)
(***************************************************************************)
Advance ==
    \E d \in Deltas :
        /\ advances < MaxAdvances
        /\ commit_pc = "idle"
        /\ advances' = advances + 1
        /\ tick_ms' = (tick_ms + d) % TICK_MOD
        /\ clock' = clock + d
        /\ last_op' = "advance"
        /\ UNCHANGED <<last_saved_state, state_cached, pending_state,
                       pending_timestamp, pending_write, nvs_flash, nvs_cache,
                       boot_pc, commit_pc, check_result>>
        /\ UNCHANGED <<last_req, req_at, last_write_at, write_gap,
                       stable_rec>>

(***************************************************************************)
(* nvs_manager_check_pending_write up to the call of                       *)
(* nvs_manager_commit_write.                                               *)
(***************************************************************************)
CheckPendingWrite ==
    /\ boot_pc = "run"
    /\ commit_pc = "idle"
    /\ IF CheckDue(CurrentPending, tick_ms)
       THEN /\ commit_pc' = "open"
            /\ last_op' = "check_commit"
            /\ UNCHANGED check_result
       ELSE /\ check_result' = 0
            /\ last_op' = "check_idle"
            /\ UNCHANGED commit_pc
    /\ UNCHANGED <<last_saved_state, state_cached, pending_state,
                   pending_timestamp, pending_write, nvs_flash, nvs_cache,
                   tick_ms, boot_pc>>
    /\ UNCHANGED <<clock, advances, last_req, req_at, last_write_at, write_gap,
                   stable_rec>>

(***************************************************************************)
(* nvs_manager_commit_write(&pending_state), one step per NVS call, and    *)
(* the return into nvs_manager_check_pending_write.  An entry set through  *)
(* the handle reaches the medium at once or at nvs_commit (the NVS API     *)
(* guarantees the latter only); entries still held by the handle when it   *)
(* is closed without nvs_commit are written out or dropped.                *)
(***************************************************************************)
\* nvs_set_*: the store after setting `key` to `value`.
NvsSet(key, value, through) ==
    IF through
    THEN [flash |-> [nvs_flash EXCEPT ![key] = value], cache |-> nvs_cache]
    ELSE [flash |-> nvs_flash, cache |-> [nvs_cache EXCEPT ![key] = value]]

\* nvs_commit: every entry of the handle is on the medium.
NvsCommit == [flash |-> StoreView(nvs_flash, nvs_cache), cache |-> EmptyStore]

\* nvs_close without nvs_commit.
NvsClose(written) ==
    [flash |-> IF written THEN StoreView(nvs_flash, nvs_cache) ELSE nvs_flash,
     cache |-> EmptyStore]

CommitFailed_updates_cache ==
    /\ commit_pc' = "idle"
    /\ check_result' = -1
    /\ pending_write' = FALSE
    /\ last_op' = "commit_failed"
    /\ last_saved_state' = pending_state
    /\ UNCHANGED <<state_cached, pending_state, pending_timestamp, tick_ms,
                   boot_pc>>
    /\ UNCHANGED <<clock, advances, last_req, req_at, last_write_at, write_gap,
                   stable_rec>>

\* Variant whose check swallows the result of the commit.
CommitFailed_returns_zero ==
    /\ commit_pc' = "idle"
    /\ check_result' = 0
    /\ pending_write' = FALSE
    /\ last_op' = "commit_failed"
    /\ UNCHANGED <<last_saved_state, state_cached, pending_state,
                   pending_timestamp, tick_ms, boot_pc>>
    /\ UNCHANGED <<clock, advances, last_req, req_at, last_write_at, write_gap,
                   stable_rec>>

\* Return of nvs_manager_commit_write with -1 into the check, which clears
\* the pending flag and hands the result on.
CommitFailed ==
    /\ commit_pc' = "idle"
    /\ check_result' = -1
    /\ pending_write' = PendingAfterCommit(-1)
    /\ last_op' = "commit_failed"
    /\ UNCHANGED <<last_saved_state, state_cached, pending_state,
                   pending_timestamp, tick_ms, boot_pc>>
    /\ UNCHANGED <<clock, advances, last_req, req_at, last_write_at, write_gap,
                   stable_rec>>

CommitStep(next_pc) ==
    /\ commit_pc' = next_pc
    /\ last_op' = "commit_step"
    /\ UNCHANGED <<last_saved_state, state_cached, pending_state,
                   pending_timestamp, pending_write, tick_ms, boot_pc,
                   check_result>>
    /\ UNCHANGED <<clock, advances, last_req, req_at, last_write_at, write_gap,
                   stable_rec>>

\* nvs_flash_init has succeeded: nvs_manager_init sets state_cached exactly
\* then, and until then nvs_open reports ESP_ERR_NVS_NOT_INITIALIZED.
NvsInitialized == state_cached

CommitOpen ==
    /\ commit_pc = "open"
    /\ \E ok \in BOOLEAN :
          /\ ok => NvsInitialized
          /\ IF ok THEN CommitStep("set_en") ELSE CommitFailed
    /\ UNCHANGED <<nvs_flash, nvs_cache>>

CommitSetEnabled ==
    /\ commit_pc = "set_en"
    /\ \E ok \in BOOLEAN, through \in BOOLEAN :
          IF ok
          THEN LET s == NvsSet("pwm_en", BoolToU8(pending_state.pwm_enabled),
                               through)
               IN /\ nvs_flash' = s.flash
                  /\ nvs_cache' = s.cache
                  /\ CommitStep("set_val")
          ELSE LET c == NvsClose(through)
               IN /\ nvs_flash' = c.flash
                  /\ nvs_cache' = c.cache
                  /\ CommitFailed

CommitSetValue ==
    /\ commit_pc = "set_val"
    /\ \E ok \in BOOLEAN, through \in BOOLEAN :
          IF ok
          THEN LET s == NvsSet("pwm_val", pending_state.pwm_value, through)
               IN /\ nvs_flash' = s.flash
                  /\ nvs_cache' = s.cache
                  /\ CommitStep("commit")
          ELSE LET c == NvsClose(through)
               IN /\ nvs_flash' = c.flash
                  /\ nvs_cache' = c.cache
                  /\ CommitFailed

CommitSucceeded ==
    /\ nvs_flash' = NvsCommit.flash
    /\ nvs_cache' = NvsCommit.cache
    /\ last_saved_state' = pending_state
    /\ state_cached' = TRUE
    /\ commit_pc' = "idle"
    /\ check_result' = 0
    /\ pending_write' = PendingAfterCommit(0)
    /\ last_op' = "commit_ok"
    /\ write_gap' = IF last_write_at = NoWrite THEN NoWrite
                    ELSE clock - last_write_at
    /\ last_write_at' = clock
    /\ stable_rec' = RecordOf(NvsCommit.flash)
    /\ UNCHANGED <<pending_state, pending_timestamp, tick_ms, boot_pc>>
    /\ UNCHANGED <<clock, advances, last_req, req_at>>

CommitFlush ==
    /\ commit_pc = "commit"
    /\ \E ok \in BOOLEAN, written \in BOOLEAN :
          IF ok
          THEN CommitSucceeded
          ELSE LET c == NvsClose(written)
               IN /\ nvs_flash' = c.flash
                  /\ nvs_cache' = c.cache
                  /\ CommitFailed

\* The persistence scheduler driven through its API by an arbitrary caller.
Next ==
    \/ NvsInit /\ UNCHANGED <<burst_vars, app_vars, enc_vars, touch_vars, pwm_vars>>
    \/ Save /\ UNCHANGED <<burst_vars, app_vars, enc_vars, touch_vars, pwm_vars>>
    \/ Advance /\ UNCHANGED <<burst_vars, app_vars, enc_vars, touch_vars, pwm_vars>>
    \/ CheckPendingWrite /\ UNCHANGED <<burst_vars, app_vars, enc_vars, touch_vars, pwm_vars>>
    \/ CommitOpen /\ UNCHANGED <<burst_vars, app_vars, enc_vars, touch_vars, pwm_vars>>
    \/ CommitSetEnabled /\ UNCHANGED <<burst_vars, app_vars, enc_vars, touch_vars, pwm_vars>>
    \/ CommitSetValue /\ UNCHANGED <<burst_vars, app_vars, enc_vars, touch_vars, pwm_vars>>
    \/ CommitFlush /\ UNCHANGED <<burst_vars, app_vars, enc_vars, touch_vars, pwm_vars>>

Spec == Init /\ [][Next]_vars

(***************************************************************************)
(* The same scheduler with the history of request bursts kept, in an       *)
(* environment whose durable writes succeed.  A burst is a run of save     *)
(* requests each issued less than one debounce window after the previous   *)
(* one; burst_ok says that the burst started from an idle scheduler with a *)
(* request that differs from the committed baseline and that consecutive   *)
(* requests were distinct; burst_writes counts the successful durable      *)
(* writes since the burst started; superseded is the candidate that was    *)
(* pending when the last request replaced it.                              *)
(***************************************************************************)
SaveHist(state) ==
    LET rapid == last_req # NoRequest
                 /\ clock - last_req_at < FLASH_WRITE_DEBOUNCE_MS
    IN /\ last_req_at' = clock
       /\ burst_ok' = IF rapid THEN burst_ok /\ state # last_req
                     ELSE ~pending_write
                          /\ state # nvs_manager_get_last_state
       /\ burst_writes' = IF rapid THEN burst_writes ELSE 0
       /\ superseded' = IF pending_write /\ pending_state' # pending_state
                        THEN pending_state ELSE NoRequest
       /\ UNCHANGED <<commit_arg, got_state>>

BurstSave ==
    \E state \in SaveInputs :
        SaveLedState(state) /\ SaveHist(state) /\ UNCHANGED <<app_vars, enc_vars, touch_vars, pwm_vars>>

\* A step of the commit that does not fail.
CommitHist ==
    /\ last_op' # "commit_failed"
    /\ burst_writes' = IF last_op' = "commit_ok"
                       THEN Min(burst_writes + 1, 2) ELSE burst_writes
    /\ superseded' = NoRequest
    /\ UNCHANGED <<last_req_at, burst_ok, commit_arg, got_state, app_vars,
                   enc_vars, touch_vars, pwm_vars>>

NextBurst ==
    \/ BurstSave
    \/ NvsInit /\ UNCHANGED <<burst_vars, app_vars, enc_vars, touch_vars, pwm_vars>>
    \/ Advance /\ UNCHANGED <<burst_vars, app_vars, enc_vars, touch_vars, pwm_vars>>
    \/ CheckPendingWrite /\ UNCHANGED <<burst_vars, app_vars, enc_vars, touch_vars, pwm_vars>>
    \/ CommitOpen /\ CommitHist
    \/ CommitSetEnabled /\ CommitHist
    \/ CommitSetValue /\ CommitHist
    \/ CommitFlush /\ CommitHist

SpecBurst == Init /\ [][NextBurst]_vars

(***************************************************************************)
(* The scheduler with a caller of nvs_manager_get_last_state, which may    *)
(* call at any point: before nvs_manager_init, between two calls of the    *)
(* API, and between two NVS calls of a commit.  got_state is the caller's  *)
(* structure right after the call and is dropped at the next step.         *)
(***************************************************************************)
GetLastState ==
    /\ got_state' = nvs_manager_get_last_state
    /\ last_op' = "get_last_state"
    /\ UNCHANGED nvs_vars
    /\ UNCHANGED <<clock, advances, last_req, req_at, last_write_at, write_gap,
                   stable_rec>>
    /\ UNCHANGED <<last_req_at, burst_ok, burst_writes, superseded, commit_arg,
                   app_vars, enc_vars, touch_vars, pwm_vars>>

ReadDropped ==
    /\ got_state' = NoRequest
    /\ UNCHANGED <<last_req_at, burst_ok, burst_writes, superseded, commit_arg,
                   app_vars, enc_vars, touch_vars, pwm_vars>>

NextRead ==
    \/ GetLastState
    \/ NvsInit /\ ReadDropped
    \/ Save /\ ReadDropped
    \/ Advance /\ ReadDropped
    \/ CheckPendingWrite /\ ReadDropped
    \/ CommitOpen /\ ReadDropped
    \/ CommitSetEnabled /\ ReadDropped
    \/ CommitSetValue /\ ReadDropped
    \/ CommitFlush /\ ReadDropped

SpecRead == Init /\ [][NextRead]_vars

(***************************************************************************)
(* The scheduler called from two tasks: one runs the checks, the other     *)
(* issues save requests at any moment, also between two NVS calls of       *)
(* nvs_manager_commit_write.  nvs_manager.c takes no lock, so nothing      *)
(* delays the request.  commit_arg is the candidate with which the commit  *)
(* in progress was entered.                                                *)
(***************************************************************************)
ConcSave ==
    \E state \in SaveInputs :
        /\ SaveRequest(state)
        /\ UNCHANGED <<burst_vars, app_vars, enc_vars, touch_vars, pwm_vars>>

ConcCheck ==
    /\ CheckPendingWrite
    /\ commit_arg' = IF commit_pc' = "open" THEN pending_state ELSE commit_arg
    /\ UNCHANGED <<last_req_at, burst_ok, burst_writes, superseded,
                   got_state, app_vars, enc_vars, touch_vars, pwm_vars>>

NextConc ==
    \/ ConcSave
    \/ ConcCheck
    \/ NvsInit /\ UNCHANGED <<burst_vars, app_vars, enc_vars, touch_vars, pwm_vars>>
    \/ Advance /\ UNCHANGED <<burst_vars, app_vars, enc_vars, touch_vars, pwm_vars>>
    \/ CommitOpen /\ UNCHANGED <<burst_vars, app_vars, enc_vars, touch_vars, pwm_vars>>
    \/ CommitSetEnabled /\ UNCHANGED <<burst_vars, app_vars, enc_vars, touch_vars, pwm_vars>>
    \/ CommitSetValue /\ UNCHANGED <<burst_vars, app_vars, enc_vars, touch_vars, pwm_vars>>
    \/ CommitFlush /\ UNCHANGED <<burst_vars, app_vars, enc_vars, touch_vars, pwm_vars>>

SpecConc == Init /\ [][NextConc]_vars

(***************************************************************************)
(* encoder.c: the pure parts of encoder_update_position and of             *)
(* encoder_set_position.                                                   *)
(***************************************************************************)
PhaseCode(clk, dt) == 2 * clk + dt

\* SCALE_FACTORS[current_scale_index]
ScaleAt(index) == SCALE_FACTORS[index + 1]

NextScaleIndex_stuck(index) == index

NextScaleIndex_two_cycle(index) == (index + 1) % 2

\* (current_scale_index + 1) % NUM_SCALES
NextScaleIndex(index) == (index + 1) % NUM_SCALES

Direction_diagonal_counts(prev_state, curr_state) ==
    IF \/ (prev_state = 0 /\ curr_state = 1)
       \/ (prev_state = 1 /\ curr_state = 3)
       \/ (prev_state = 3 /\ curr_state = 2)
       \/ (prev_state = 2 /\ curr_state = 0)
       \/ (prev_state = 0 /\ curr_state = 3)
    THEN 1
    ELSE IF \/ (prev_state = 0 /\ curr_state = 2)
            \/ (prev_state = 2 /\ curr_state = 3)
            \/ (prev_state = 3 /\ curr_state = 1)
            \/ (prev_state = 1 /\ curr_state = 0)
    THEN 0 - 1
    ELSE 0

Direction_one_pair_missing(prev_state, curr_state) ==
    IF \/ (prev_state = 0 /\ curr_state = 1)
       \/ (prev_state = 1 /\ curr_state = 3)
       \/ (prev_state = 3 /\ curr_state = 2)
    THEN 1
    ELSE IF \/ (prev_state = 0 /\ curr_state = 2)
            \/ (prev_state = 2 /\ curr_state = 3)
            \/ (prev_state = 3 /\ curr_state = 1)
            \/ (prev_state = 1 /\ curr_state = 0)
    THEN 0 - 1
    ELSE 0

\* The quadrature decoding of a (previous, current) pair of phase codes.
Direction(prev_state, curr_state) ==
    IF \/ (prev_state = 0 /\ curr_state = 1)
       \/ (prev_state = 1 /\ curr_state = 3)
       \/ (prev_state = 3 /\ curr_state = 2)
       \/ (prev_state = 2 /\ curr_state = 0)
    THEN 1
    ELSE IF \/ (prev_state = 0 /\ curr_state = 2)
            \/ (prev_state = 2 /\ curr_state = 3)
            \/ (prev_state = 3 /\ curr_state = 1)
            \/ (prev_state = 1 /\ curr_state = 0)
    THEN 0 - 1
    ELSE 0

encoder_step_unbounded(position, dir, sc) ==
    IF dir = 1 THEN position + sc
    ELSE IF dir = 0 - 1 THEN position - sc
    ELSE position

\* The position after the locked update of encoder_update_position.
encoder_step(position, dir, sc) ==
    IF dir = 1
    THEN IF position + sc <= ENCODER_POS_MAX THEN position + sc
                                             ELSE ENCODER_POS_MAX
    ELSE IF dir = 0 - 1
    THEN IF position - sc >= ENCODER_POS_MIN THEN position - sc
                                             ELSE ENCODER_POS_MIN
    ELSE position

encoder_set_position_unclamped(position) == position

\* encoder_set_position(position): the position stored.
encoder_set_position(position) ==
    IF position < ENCODER_POS_MIN THEN ENCODER_POS_MIN
    ELSE IF position > ENCODER_POS_MAX THEN ENCODER_POS_MAX
    ELSE position

(***************************************************************************)
(* main.c: app_main.  Start-up is app_init_all_modules followed by         *)
(* app_restore_state; the loop body runs up to the call of                 *)
(* nvs_manager_commit_write (whose steps are the scheduler's), then        *)
(* vTaskDelay.  The touch and encoder tasks change their counters between  *)
(* the steps of the loop.                                                  *)
(***************************************************************************)
LoadFailed(open_ok, r_en, r_val, store) ==
    \/ open_ok # (store # EmptyStore)
    \/ r_en = "fail"
    \/ r_val = "fail"

\* The mutexes of encoder_init and touch_sensor_init.
AllMutexes == {"encoder", "touch"}

\* xSemaphoreCreateMutex returns a handle or NULL in encoder_init and in
\* touch_sensor_init, which return void either way; the result of
\* app_init_all_modules depends on nvs_manager_init and pwm_controller_init
\* only.  pwm_controller_init is not reached when nvs_manager_init fails.
app_init_all_modules ==
    /\ app_pc = "init"
    /\ \E flash_init \in FlashInitOutcomes, open_ok \in BOOLEAN,
          r_en \in ReadOutcomes, r_val \in ReadOutcomes,
          created \in SUBSET AllMutexes, failed \in LedcInitOutcomes :
          /\ nvs_manager_init(flash_init, open_ok, r_en, r_val)
          /\ mutexes' = IF flash_init = "fail" THEN mutexes ELSE created
          /\ IF flash_init = "fail" THEN UNCHANGED pwm_vars
                                    ELSE pwm_controller_init(failed)
          /\ app_pc' = IF flash_init = "fail" \/ failed # "none" THEN "halt"
                       ELSE "restore"
          /\ io_failed' = (\/ flash_init # "ok"
                           \/ LoadFailed(open_ok, r_en, r_val, nvs_flash))
    /\ UNCHANGED <<app_pwm_enabled, app_current_position,
                   app_last_touch_count, app_nvs_check_counter,
                   app_changed_at, app_toggles, restarts, touch_event_count,
                   encoder_position>>
    /\ UNCHANGED <<last_req, burst_vars, enc_task_vars, touch_vars>>

\* Variant that does not re-synchronise the encoder.
app_restore_state_no_resync ==
    /\ app_pc = "restore"
    /\ \E open_ok \in BOOLEAN, r_en \in ReadOutcomes, r_val \in ReadOutcomes :
          LET store == StoreView(nvs_flash, nvs_cache)
              load == nvs_manager_load_led_state(DefaultLedState, open_ok,
                                                 r_en, r_val, store)
          IN /\ open_ok => store # EmptyStore
             /\ ReadPossible(r_en, store.pwm_en)
             /\ ReadPossible(r_val, store.pwm_val)
             /\ io_failed' = (io_failed
                              \/ LoadFailed(open_ok, r_en, r_val, store))
             /\ IF load.ret = 0
                THEN /\ app_pwm_enabled' = load.state.pwm_enabled
                     /\ app_current_position' = load.state.pwm_value
                     /\ pwm_controller_set_brightness(
                            IF load.state.pwm_enabled
                            THEN load.state.pwm_value ELSE 0, "none")
                ELSE /\ app_pwm_enabled' = CONFIG_NVS_DEFAULT_PWM_ENABLE
                     /\ app_current_position' = CONFIG_NVS_DEFAULT_PWM_VALUE
                     /\ UNCHANGED pwm_vars
    /\ UNCHANGED encoder_position
    /\ app_last_touch_count' = 0
    /\ app_nvs_check_counter' = 0
    /\ app_pc' = "loop"
    /\ app_changed_at' = clock
    /\ last_op' = "restore"
    /\ UNCHANGED <<app_toggles, restarts, mutexes, touch_event_count>>
    /\ UNCHANGED <<nvs_vars, burst_vars, enc_task_vars, touch_vars>>
    /\ UNCHANGED <<clock, advances, last_req, req_at, last_write_at,
                   write_gap, stable_rec>>

\* app_restore_state and lines 295-299 of app_main.  encoder_set_position
\* takes encoder_mutex: on a handle that was not created the semaphore call
\* fails its assertion or faults, and the device panics.
app_restore_state ==
    /\ app_pc = "restore"
    /\ \E open_ok \in BOOLEAN, r_en \in ReadOutcomes, r_val \in ReadOutcomes :
          LET store == StoreView(nvs_flash, nvs_cache)
              load == nvs_manager_load_led_state(DefaultLedState, open_ok,
                                                 r_en, r_val, store)
          IN /\ open_ok => store # EmptyStore
             /\ ReadPossible(r_en, store.pwm_en)
             /\ ReadPossible(r_val, store.pwm_val)
             /\ io_failed' = (io_failed
                              \/ LoadFailed(open_ok, r_en, r_val, store))
             /\ IF load.ret = 0
                THEN /\ app_pwm_enabled' = load.state.pwm_enabled
                     /\ app_current_position' = load.state.pwm_value
                     /\ IF "encoder" \in mutexes
                        THEN /\ encoder_position' =
                                   encoder_set_position(load.state.pwm_value)
                             /\ pwm_controller_set_brightness(
                                    IF load.state.pwm_enabled
                                    THEN load.state.pwm_value ELSE 0, "none")
                             /\ app_pc' = "loop"
                        ELSE /\ UNCHANGED encoder_position
                             /\ UNCHANGED pwm_vars
                             /\ app_pc' = "panic"
                ELSE /\ app_pwm_enabled' = CONFIG_NVS_DEFAULT_PWM_ENABLE
                     /\ app_current_position' = CONFIG_NVS_DEFAULT_PWM_VALUE
                     /\ UNCHANGED encoder_position
                     /\ UNCHANGED pwm_vars
                     /\ app_pc' = "loop"
    /\ app_last_touch_count' = 0
    /\ app_nvs_check_counter' = 0
    /\ app_changed_at' = clock
    /\ last_op' = "restore"
    /\ UNCHANGED <<app_toggles, restarts, mutexes, touch_event_count>>
    /\ UNCHANGED <<nvs_vars, burst_vars, enc_task_vars, touch_vars>>
    /\ UNCHANGED <<clock, advances, last_req, req_at, last_write_at,
                   write_gap, stable_rec>>

\* app_handle_touch_toggle and app_handle_encoder_change, as the values of
\* the orchestrator's state and of the pending write after each.
AppAfterTouch ==
    IF touch_event_count # app_last_touch_count
    THEN LET en == ~app_pwm_enabled
             st == LedState(en, app_current_position)
         IN [enabled |-> en, saved |-> TRUE, arg |-> st,
             pending |-> nvs_manager_save_led_state(CurrentPending, st,
                                                    tick_ms)]
    ELSE [enabled |-> app_pwm_enabled, saved |-> FALSE, arg |-> last_req,
          pending |-> CurrentPending]

AppAfterEncoder(t) ==
    IF encoder_position # app_current_position /\ t.enabled
    THEN LET st == LedState(t.enabled, encoder_position)
         IN [saved |-> TRUE, arg |-> st,
             pending |-> nvs_manager_save_led_state(t.pending, st, tick_ms)]
    ELSE [saved |-> t.saved, arg |-> t.arg, pending |-> t.pending]

\* The first call of an iteration into a component whose mutex was not
\* created (touch_sensor_get_touch_count, encoder_get_position): the device
\* panics.
AppLoopPanic ==
    /\ app_pc = "loop"
    /\ commit_pc = "idle"
    /\ app_pc' = "panic"
    /\ UNCHANGED <<app_pwm_enabled, app_current_position,
                   app_last_touch_count, app_nvs_check_counter,
                   app_changed_at, io_failed, app_toggles, restarts, mutexes,
                   touch_event_count>>
    /\ UNCHANGED <<nvs_vars, hist_vars, burst_vars, enc_vars, touch_vars, pwm_vars>>

AppLoopRun ==
    /\ app_pc = "loop"
    /\ commit_pc = "idle"
    /\ LET t == AppAfterTouch
           e == AppAfterEncoder(t)
           counter == app_nvs_check_counter + 1
           due == counter >= CONFIG_NVS_CHECK_COUNT
       IN /\ app_last_touch_count' = touch_event_count
          /\ app_pwm_enabled' = t.enabled
          /\ app_toggles' = IF t.enabled # app_pwm_enabled
                            THEN app_toggles + 1 ELSE app_toggles
          /\ app_current_position' = encoder_position
          /\ pending_state' = e.pending.pending_state
          /\ pending_timestamp' = e.pending.pending_timestamp
          /\ pending_write' = e.pending.pending_write
          /\ req_at' = IF e.pending # CurrentPending THEN clock ELSE req_at
          /\ last_req' = e.arg
          /\ app_changed_at' =
                IF t.enabled # app_pwm_enabled
                   \/ encoder_position # app_current_position
                THEN clock ELSE app_changed_at
          /\ IF encoder_position # app_current_position /\ t.enabled
             THEN pwm_controller_set_brightness(encoder_position, "none")
             ELSE IF t.saved
             THEN pwm_controller_set_brightness(
                     IF t.enabled THEN app_current_position ELSE 0, "none")
             ELSE UNCHANGED pwm_vars
          /\ app_nvs_check_counter' = IF due THEN 0 ELSE counter
          /\ IF due /\ CheckDue(e.pending, tick_ms)
             THEN /\ commit_pc' = "open"
                  /\ last_op' = "check_commit"
                  /\ UNCHANGED check_result
             ELSE /\ check_result' = IF due THEN 0 ELSE check_result
                  /\ last_op' = IF due THEN "check_idle" ELSE "loop"
                  /\ UNCHANGED commit_pc
    /\ app_pc' = "delay"
    /\ UNCHANGED <<last_saved_state, state_cached, nvs_flash, nvs_cache,
                   tick_ms, boot_pc>>
    /\ UNCHANGED <<clock, advances, last_write_at, write_gap, stable_rec>>
    /\ UNCHANGED <<io_failed, restarts, mutexes, touch_event_count,
                   encoder_position>>
    /\ UNCHANGED <<burst_vars, enc_task_vars, touch_vars>>

\* One iteration of the loop of app_main, up to vTaskDelay.
AppLoopBody ==
    IF mutexes = AllMutexes THEN AppLoopRun ELSE AppLoopPanic

\* vTaskDelay(CONFIG_MAIN_LOOP_INTERVAL / portTICK_PERIOD_MS)
AppDelay ==
    /\ app_pc = "delay"
    /\ commit_pc = "idle"
    /\ clock < (InputWindowIters + MaxIdleIters) * CONFIG_MAIN_LOOP_INTERVAL
    /\ app_pc' = "loop"
    /\ tick_ms' = (tick_ms + CONFIG_MAIN_LOOP_INTERVAL) % TICK_MOD
    /\ clock' = clock + CONFIG_MAIN_LOOP_INTERVAL
    /\ last_op' = "delay"
    /\ UNCHANGED <<last_saved_state, state_cached, pending_state,
                   pending_timestamp, pending_write, nvs_flash, nvs_cache,
                   boot_pc, commit_pc, check_result>>
    /\ UNCHANGED <<advances, last_req, req_at, last_write_at, write_gap,
                   stable_rec>>
    /\ UNCHANGED <<app_pwm_enabled, app_current_position,
                   app_last_touch_count, app_nvs_check_counter,
                   app_changed_at, io_failed, app_toggles, restarts, mutexes,
                   touch_event_count, encoder_position>>
    /\ UNCHANGED <<burst_vars, enc_task_vars, touch_vars, pwm_vars>>

\* The device is reset at any moment, also inside a commit: the statics of
\* every module are initialised again, the entries a handle still held are
\* gone, the medium keeps what it holds, and app_main is entered anew.  The
\* history starts again, with the record the medium holds as the settled
\* one.
Restart ==
    /\ app_pc # "init"
    /\ restarts < MaxRestarts
    /\ restarts' = restarts + 1
    /\ last_saved_state' = DefaultLedState
    /\ state_cached' = FALSE
    /\ pending_state' = DefaultLedState
    /\ pending_timestamp' = 0
    /\ pending_write' = FALSE
    /\ nvs_cache' = EmptyStore
    /\ tick_ms' = 0
    /\ boot_pc' = "start"
    /\ commit_pc' = "idle"
    /\ check_result' = 0
    /\ clock' = 0
    /\ last_op' = "boot"
    /\ req_at' = 0
    /\ last_req' = NoRequest
    /\ last_write_at' = NoWrite
    /\ write_gap' = NoWrite
    /\ stable_rec' = RecordOf(nvs_flash)
    /\ app_pwm_enabled' = FALSE
    /\ app_current_position' = 0
    /\ app_last_touch_count' = 0
    /\ app_nvs_check_counter' = 0
    /\ app_pc' = "init"
    /\ app_changed_at' = 0
    /\ io_failed' = FALSE
    /\ app_toggles' = 0
    /\ mutexes' = {}
    /\ touch_event_count' = 0
    /\ encoder_position' = CONFIG_ENCODER_INITIAL_POS
    /\ current_duty_ch1' = 0
    /\ current_duty_ch2' = 0
    /\ ledc_duty_ch1' = 0
    /\ ledc_duty_ch2' = 0
    /\ pwm_pc' = "start"
    /\ pwm_op' = "none"
    /\ pwm_req' = 0
    /\ pwm_ret' = 0
    /\ UNCHANGED <<nvs_flash, advances>>
    /\ UNCHANGED <<burst_vars, enc_task_vars, touch_vars>>

InputsActive ==
    /\ restarts = 0
    /\ app_pc \in {"loop", "delay"}
    /\ clock < InputWindowIters * CONFIG_MAIN_LOOP_INTERVAL

\* The touch task confirms a touch-down: touch_event_count++.
TouchDown ==
    /\ InputsActive
    /\ "touch" \in mutexes
    /\ touch_event_count < MaxTouches
    /\ touch_event_count' = touch_event_count + 1
    /\ UNCHANGED <<app_pwm_enabled, app_current_position,
                   app_last_touch_count, app_nvs_check_counter, app_pc,
                   app_changed_at, io_failed, app_toggles, restarts, mutexes,
                   encoder_position>>
    /\ UNCHANGED <<nvs_vars, hist_vars, burst_vars, enc_task_vars, touch_vars, pwm_vars>>

\* The encoder task has moved the position.
EncoderTurned ==
    /\ InputsActive
    /\ "encoder" \in mutexes
    /\ \E position \in AppPositions \ {encoder_position} :
          encoder_position' = position
    /\ UNCHANGED app_vars
    /\ UNCHANGED <<nvs_vars, hist_vars, burst_vars, enc_task_vars, touch_vars, pwm_vars>>

\* A step of nvs_manager_commit_write that succeeds.
CommitOk ==
    /\ last_op' # "commit_failed"
    /\ UNCHANGED <<burst_vars, app_vars, enc_vars, touch_vars, pwm_vars>>

NextApp ==
    \/ app_init_all_modules
    \/ app_restore_state
    \/ AppLoopBody
    \/ AppDelay
    \/ Restart
    \/ TouchDown
    \/ EncoderTurned
    \/ CommitOpen /\ CommitOk
    \/ CommitSetEnabled /\ CommitOk
    \/ CommitSetValue /\ CommitOk
    \/ CommitFlush /\ CommitOk

\* The orchestrator with the scheduler, in an environment whose durable
\* writes and whose LEDC operations after pwm_controller_init succeed.
SpecApp == Init /\ [][NextApp]_vars

\* The same, booted on a store that this firmware has not written.
InitForeign ==
    /\ NvsStatics
    /\ nvs_flash \in ForeignStores
    /\ nvs_cache = EmptyStore
    /\ tick_ms = 0
    /\ boot_pc = "start"
    /\ commit_pc = "idle"
    /\ check_result = 0
    /\ InitHist /\ InitBurst /\ InitApp /\ InitEncoder /\ InitTouchSensor
    /\ InitPwm

SpecForeign == InitForeign /\ [][NextApp]_vars

(***************************************************************************)
(* encoder.c: encoder_init, encoder_task and the public API.  A section    *)
(* that holds encoder_mutex is one step.  encoder_update_position reads    *)
(* the pins, last_clk_state, last_dt_state and current_scale_index without *)
(* the mutex (EncSample) and then updates the position under it            *)
(* (EncUpdate), so calls of the API by other tasks fall between the two.   *)
(***************************************************************************)
PinLevels == {0, 1}

\* Arguments the callers of encoder_set_position pass.
SetPositionInputs == {0 - 1, 3, 250, ENCODER_POS_MAX + 1}

EncOther == <<nvs_vars, hist_vars, burst_vars, app_vars, touch_vars, pwm_vars>>

\* Variant that seeds the CLK line only.
encoder_init_clk_only ==
    /\ enc_pc = "init"
    /\ \E clk \in PinLevels, dt \in PinLevels :
          /\ last_clk_state' = clk
          /\ phase_seen' = <<clk, dt>>
    /\ init_reads' = 1
    /\ enc_pc' = "button"
    /\ UNCHANGED <<encoder_position, button_press_count, button_pressed,
                   last_dt_state, current_scale_index, last_button_state,
                   clk_state, dt_state, scale, direction, old_pos, enc_iters,
                   api_calls, scale_steps>>
    /\ UNCHANGED EncOther

\* encoder_init, lines 250-255: after the settling delay each phase line is
\* read once, into last_clk_state and last_dt_state.
encoder_init ==
    /\ enc_pc = "init"
    /\ \E clk \in PinLevels, dt \in PinLevels :
          /\ last_clk_state' = clk
          /\ last_dt_state' = dt
          /\ phase_seen' = <<clk, dt>>
    /\ init_reads' = 1
    /\ enc_pc' = "button"
    /\ UNCHANGED <<encoder_position, button_press_count, button_pressed,
                   current_scale_index, last_button_state, clk_state,
                   dt_state, scale, direction, old_pos, enc_iters,
                   api_calls, scale_steps>>
    /\ UNCHANGED EncOther

\* encoder_task, lines 160-183: the button edge.
EncButton ==
    /\ enc_pc = "button"
    /\ enc_iters < MaxEncIters
    /\ \E current_button_state \in BOOLEAN :
          /\ IF current_button_state /\ ~last_button_state
             THEN /\ button_press_count' = button_press_count + 1
                  /\ button_pressed' = TRUE
                  /\ current_scale_index' =
                         NextScaleIndex(current_scale_index)
                  /\ scale_steps' = scale_steps + 1
             ELSE IF ~current_button_state /\ last_button_state
             THEN /\ button_pressed' = FALSE
                  /\ UNCHANGED <<button_press_count, current_scale_index,
                                 scale_steps>>
             ELSE UNCHANGED <<button_press_count, button_pressed,
                              current_scale_index, scale_steps>>
          /\ last_button_state' = current_button_state
    /\ enc_pc' = "sample"
    /\ enc_iters' = enc_iters + 1
    /\ clk_state' = 0
    /\ dt_state' = 0
    /\ scale' = 0
    /\ direction' = 0
    /\ old_pos' = 0
    /\ UNCHANGED <<encoder_position, last_clk_state, last_dt_state,
                   api_calls, phase_seen, init_reads>>
    /\ UNCHANGED EncOther

\* encoder_update_position, lines 73-106: sample the phases and decode.
EncSample ==
    /\ enc_pc = "sample"
    /\ \E clk \in PinLevels, dt \in PinLevels :
          /\ clk_state' = clk
          /\ dt_state' = dt
          /\ phase_seen' = <<clk, dt>>
          /\ IF clk # last_clk_state \/ dt # last_dt_state
             THEN /\ scale' = ScaleAt(current_scale_index)
                  /\ direction' =
                         Direction(PhaseCode(last_clk_state, last_dt_state),
                                   PhaseCode(clk, dt))
                  /\ enc_pc' = "update"
             ELSE /\ enc_pc' = "button"
                  /\ UNCHANGED <<scale, direction>>
    /\ UNCHANGED <<encoder_position, button_press_count, button_pressed,
                   last_clk_state, last_dt_state, current_scale_index,
                   last_button_state, old_pos, enc_iters, api_calls,
                   scale_steps, init_reads>>
    /\ UNCHANGED EncOther

\* Variant that keeps the stored phase levels after an invalid transition.
EncUpdate_keeps_phase_when_invalid ==
    /\ enc_pc = "update"
    /\ old_pos' = encoder_position
    /\ encoder_position' = encoder_step(encoder_position, direction, scale)
    /\ last_clk_state' = IF direction = 0 THEN last_clk_state ELSE clk_state
    /\ last_dt_state' = IF direction = 0 THEN last_dt_state ELSE dt_state
    /\ enc_pc' = "button"
    /\ UNCHANGED <<button_press_count, button_pressed, current_scale_index,
                   last_button_state, clk_state, dt_state, scale, direction,
                   enc_iters, api_calls, scale_steps, phase_seen, init_reads>>
    /\ UNCHANGED EncOther

\* encoder_update_position, lines 109-139: the locked update, then the
\* sampled levels become the last ones.
EncUpdate ==
    /\ enc_pc = "update"
    /\ old_pos' = encoder_position
    /\ encoder_position' = encoder_step(encoder_position, direction, scale)
    /\ last_clk_state' = clk_state
    /\ last_dt_state' = dt_state
    /\ enc_pc' = "button"
    /\ UNCHANGED <<button_press_count, button_pressed, current_scale_index,
                   last_button_state, clk_state, dt_state, scale, direction,
                   enc_iters, api_calls, scale_steps, phase_seen, init_reads>>
    /\ UNCHANGED EncOther

\* A call of the public API by another task.
ApiCall ==
    /\ enc_pc # "init"
    /\ api_calls < MaxApiCalls
    /\ api_calls' = api_calls + 1
    /\ UNCHANGED <<button_pressed, last_clk_state, last_dt_state, enc_pc,
                   last_button_state, clk_state, dt_state, scale, direction,
                   old_pos, enc_iters, phase_seen, init_reads>>
    /\ UNCHANGED EncOther

\* Variant that also sets the stored phase levels to zero.
EncSetPosition_reseeds_phase ==
    /\ enc_pc # "init"
    /\ api_calls < MaxApiCalls
    /\ api_calls' = api_calls + 1
    /\ \E position \in SetPositionInputs :
          encoder_position' = encoder_set_position(position)
    /\ last_clk_state' = 0
    /\ last_dt_state' = 0
    /\ UNCHANGED <<button_press_count, button_pressed, current_scale_index,
                   enc_pc, last_button_state, clk_state, dt_state, scale,
                   direction, old_pos, enc_iters, scale_steps, phase_seen,
                   init_reads>>
    /\ UNCHANGED EncOther

EncSetPosition ==
    /\ ApiCall
    /\ \E position \in SetPositionInputs :
          encoder_position' = encoder_set_position(position)
    /\ UNCHANGED <<button_press_count, current_scale_index, scale_steps>>

encoder_reset_position ==
    /\ ApiCall
    /\ encoder_position' = 0
    /\ UNCHANGED <<button_press_count, current_scale_index, scale_steps>>

encoder_reset_button_count ==
    /\ ApiCall
    /\ button_press_count' = 0
    /\ UNCHANGED <<encoder_position, current_scale_index, scale_steps>>

encoder_cycle_scale_factor ==
    /\ ApiCall
    /\ current_scale_index' = NextScaleIndex(current_scale_index)
    /\ scale_steps' = scale_steps + 1
    /\ UNCHANGED <<encoder_position, button_press_count>>

NextEnc ==
    \/ encoder_init
    \/ EncButton
    \/ EncSample
    \/ EncUpdate
    \/ EncSetPosition
    \/ encoder_reset_position
    \/ encoder_reset_button_count
    \/ encoder_cycle_scale_factor

\* The encoder task and the callers of its API; the scheduler is at rest.
InitEnc ==
    /\ Init
    /\ nvs_flash = EmptyStore
    /\ tick_ms = 0

SpecEnc == InitEnc /\ [][NextEnc]_vars

\* The encoder task and a caller that re-synchronises the position with
\* encoder_set_position, as app_restore_state does.
NextResync ==
    \/ encoder_init
    \/ EncButton
    \/ EncSample
    \/ EncUpdate
    \/ EncSetPosition

SpecResync == InitEnc /\ [][NextResync]_vars

(***************************************************************************)
(* touch_sensor.c: touch_sensor_init, touch_sensor_task and                *)
(* touch_sensor_reset_touch_count.  One poll of the task is one step.      *)
(***************************************************************************)
debounce_count_no_reset(counter, same) ==
    IF same THEN counter ELSE counter + 1

\* debounce_counter after the comparison of lines 53-56.
debounce_count(counter, same) ==
    IF same THEN 0 ELSE counter + 1

DebounceReached_late(counter) == counter > CONFIG_TOUCH_DEBOUNCE_COUNT

\* Variant that confirms one sample early.
DebounceReached_early(counter) == counter >= CONFIG_TOUCH_DEBOUNCE_COUNT - 1

\* debounce_counter >= debounce_threshold
DebounceReached(counter) == counter >= CONFIG_TOUCH_DEBOUNCE_COUNT

\* The last raw samples, at most as many as the debounce threshold.
Remember(window, sample) ==
    LET w == Append(window, sample)
    IN IF Len(w) > CONFIG_TOUCH_DEBOUNCE_COUNT THEN Tail(w) ELSE w

TouchOther ==
    <<nvs_vars, hist_vars, burst_vars, enc_vars, app_pwm_enabled,
      app_current_position, app_last_touch_count, app_nvs_check_counter,
      app_pc, app_changed_at, io_failed, app_toggles, restarts, mutexes,
      pwm_vars>>

touch_sensor_init ==
    /\ touch_pc = "init"
    /\ \E level \in BOOLEAN : last_sensor_state' = level
    /\ touch_pc' = "run"
    /\ UNCHANGED <<sensor_touched, debounce_counter, raw_window, since_edge,
                   touch_polls, touch_resets, released, touch_event_count>>
    /\ UNCHANGED TouchOther

\* Variant that takes every confirmed change for a touch.
TouchDetected_any_change(current_state, touched) == TRUE

\* current_state && !sensor_touched
TouchDetected(current_state, touched) == current_state /\ ~touched

\* !current_state && sensor_touched
TouchReleased(current_state, touched) == ~current_state /\ touched

TouchPoll ==
    /\ touch_pc = "run"
    /\ touch_polls < MaxTouchPolls
    /\ \E current_state \in BOOLEAN :
          LET counter == debounce_count(debounce_counter,
                                        current_state = last_sensor_state)
              confirmed == /\ current_state # last_sensor_state
                           /\ DebounceReached(counter)
          IN /\ raw_window' = Remember(raw_window, current_state)
             /\ IF confirmed
                THEN /\ IF TouchDetected(current_state, sensor_touched)
                        THEN /\ sensor_touched' = TRUE
                             /\ touch_event_count' = touch_event_count + 1
                             /\ released' = FALSE
                        ELSE IF TouchReleased(current_state, sensor_touched)
                        THEN /\ sensor_touched' = FALSE
                             /\ released' = TRUE
                             /\ UNCHANGED touch_event_count
                        ELSE /\ released' = (released \/ ~current_state)
                             /\ UNCHANGED <<sensor_touched,
                                            touch_event_count>>
                     /\ last_sensor_state' = current_state
                     /\ debounce_counter' = 0
                     /\ since_edge' = 0
                ELSE /\ debounce_counter' = counter
                     /\ since_edge' = since_edge + 1
                     /\ UNCHANGED <<sensor_touched, touch_event_count,
                                    last_sensor_state, released>>
    /\ touch_polls' = touch_polls + 1
    /\ UNCHANGED <<touch_pc, touch_resets>>
    /\ UNCHANGED TouchOther

touch_sensor_reset_touch_count ==
    /\ touch_pc = "run"
    /\ touch_resets < MaxTouchResets
    /\ touch_resets' = touch_resets + 1
    /\ touch_event_count' = 0
    /\ UNCHANGED <<sensor_touched, last_sensor_state, debounce_counter,
                   touch_pc, raw_window, since_edge, touch_polls, released>>
    /\ UNCHANGED TouchOther

NextTouch ==
    \/ touch_sensor_init
    \/ TouchPoll
    \/ touch_sensor_reset_touch_count

\* The touch task and the callers of its API; the scheduler is at rest.
InitTouch ==
    /\ Init
    /\ nvs_flash = EmptyStore
    /\ tick_ms = 0

SpecTouch == InitTouch /\ [][NextTouch]_vars

(***************************************************************************)
(* Properties of the persistence scheduler.                                *)
(***************************************************************************)
PendingTriple == <<pending_state, pending_timestamp, pending_write>>
CheckOps == {"check_idle", "check_commit"}

\* C1: a burst of rapid, consecutively distinct save requests followed by
\* silence, with checks running and commits succeeding, ends in exactly one
\* durable write, and the store holds the last requested value.  (Stated for
\* the bursts that start from an idle scheduler with a request that differs
\* from the committed baseline.)
C1_OneWriteOfLastRequest ==
    ( /\ burst_ok
      /\ commit_pc = "idle"
      /\ ~pending_write
      /\ last_op \in {"check_idle", "commit_ok"}
      /\ clock - last_req_at >= FLASH_WRITE_DEBOUNCE_MS )
    => (burst_writes = 1 /\ DurableRecord = last_req)

\* C2: a check whose durable write fails leaves the pending write active,
\* with its candidate and its request timestamp unchanged.
C2_FailedWriteKeepsPending ==
    [][ last_op' = "commit_failed"
        => /\ pending_write'
           /\ pending_state' = pending_state
           /\ pending_timestamp' = pending_timestamp ]_vars

\* C4 as claimed: in every state, initialised or not, a save request equal
\* to the baseline nvs_manager_get_last_state returns leaves the pending
\* write as it was.
C4_BaselineRequestNeverQueues ==
    [][ (last_op' = "save" /\ last_req' = nvs_manager_get_last_state)
        => UNCHANGED PendingTriple ]_vars

\* C4 amended: once the baseline is cached (nvs_manager_init has succeeded
\* or a commit has succeeded), a save request equal to the baseline leaves
\* the pending write as it was.
C4_CachedBaselineRequestNeverQueues ==
    [][ (last_op' = "save" /\ state_cached
         /\ last_req' = nvs_manager_get_last_state)
        => UNCHANGED PendingTriple ]_vars

\* A request equal to the cached baseline has been made while another
\* candidate was pending.
C4_Witness ==
    /\ last_op = "save"
    /\ state_cached
    /\ last_req = nvs_manager_get_last_state
    /\ pending_write
    /\ pending_state # last_req

\* C5: a check made less than 5000 ms after the request writes nothing and
\* keeps the pending write; a check made 5000 ms or more after it attempts
\* the write; the medium changes only inside such an attempt; and after the
\* successful write the baseline is the candidate, the medium holds it and
\* no pending write remains.
C5_DebounceWindow ==
    [][ /\ (pending_write /\ last_op' \in CheckOps)
           => (last_op' = "check_commit"
               <=> clock - req_at >= FLASH_WRITE_DEBOUNCE_MS)
        /\ last_op' = "check_idle"
           => UNCHANGED <<PendingTriple, nvs_flash, nvs_cache,
                          last_saved_state>>
        /\ (nvs_flash' # nvs_flash /\ last_op' # "init")
           => (commit_pc # "idle"
               /\ clock - req_at >= FLASH_WRITE_DEBOUNCE_MS)
        /\ last_op' = "commit_ok"
           => /\ nvs_manager_get_last_state' = pending_state
              /\ DurableRecord' = pending_state
              /\ ~pending_write' ]_vars

\* The end-to-end case: baseline (true,155), request (true,200) at 0, time
\* advanced by 4999 and by 1, committed at 5000.
C5_Witness ==
    /\ last_op = "commit_ok"
    /\ clock = FLASH_WRITE_DEBOUNCE_MS
    /\ advances = 2
    /\ req_at = 0
    /\ nvs_manager_get_last_state = LedState(TRUE, 200)
    /\ DurableRecord = LedState(TRUE, 200)
    /\ ~pending_write

\* C6: two successive successful durable writes are at least one debounce
\* window apart.
C6_WritesOneWindowApart ==
    write_gap # NoWrite => write_gap >= FLASH_WRITE_DEBOUNCE_MS

\* Two durable writes have happened.
C6_Witness ==
    /\ last_op = "commit_ok"
    /\ write_gap # NoWrite
    /\ write_gap >= FLASH_WRITE_DEBOUNCE_MS

\* C7: wherever the process stops, the record on the medium is the complete
\* previously committed record or the complete candidate of the write in
\* progress; before the deadline it is the previously committed record.
C7_NoTornRecord ==
    /\ DurableRecord \in
          ({stable_rec} \cup
           (IF commit_pc # "idle" THEN {pending_state} ELSE {}))
    /\ (pending_write /\ commit_pc = "idle"
        /\ clock - req_at < FLASH_WRITE_DEBOUNCE_MS)
       => DurableRecord = stable_rec


\* C16: a save request equal to the candidate of the active pending write
\* leaves pending_state, pending_timestamp and pending_write as they were,
\* however late it comes: the deadline is not postponed.
C16_DuplicateRequestIsNoOp ==
    [][ (last_op' = "save" /\ pending_write /\ last_req' = pending_state)
        => (UNCHANGED PendingTriple /\ req_at' = req_at) ]_vars

\* The pending candidate has been requested again later than it was queued.
C16_Witness ==
    /\ last_op = "save"
    /\ pending_write
    /\ last_req = pending_state
    /\ last_req # nvs_manager_get_last_state
    /\ clock > req_at
    /\ pending_timestamp # tick_ms

C18_BaselineFollowsCommits ==
    [][ /\ ( /\ boot_pc = "run"
             /\ \/ last_saved_state' # last_saved_state
                \/ nvs_manager_get_last_state' # nvs_manager_get_last_state )
           => /\ last_op' = "commit_ok"
              /\ last_saved_state' = pending_state
              /\ nvs_manager_get_last_state' = pending_state
              /\ DurableRecord' = pending_state
        /\ last_op' \in {"save", "check_idle", "commit_failed"}
           => UNCHANGED <<last_saved_state, state_cached>> ]_vars

\* A durable write of (false,200) has succeeded and is the baseline.
C18_Witness ==
    /\ last_op = "commit_ok"
    /\ last_saved_state = LedState(FALSE, 200)
    /\ nvs_manager_get_last_state = LedState(FALSE, 200)
    /\ DurableRecord = LedState(FALSE, 200)

C29_GetLastStateIsPureRead ==
    [][ last_op' = "get_last_state"
        => /\ UNCHANGED <<PendingTriple, last_saved_state, state_cached,
                          nvs_flash, nvs_cache, commit_pc, check_result>>
           /\ got_state' = IF state_cached THEN last_saved_state
                           ELSE LedState(TRUE, 155)
           /\ boot_pc = "start" => got_state' = LedState(TRUE, 155)
           /\ last_write_at # NoWrite => got_state' = stable_rec ]_vars

\* The baseline (false,200), written by a commit, has been read while a
\* later request was pending.
C29_Witness ==
    /\ last_op = "get_last_state"
    /\ got_state = LedState(FALSE, 200)
    /\ last_write_at # NoWrite
    /\ pending_write
    /\ pending_state # got_state

\* C21: a save request that another task issues while a commit is in
\* progress, and that replaces the candidate, is not lost (at the return of
\* the check it is still the active pending write) and is not written with
\* torn fields (a successful write leaves on the medium the complete
\* candidate the commit was entered with or the complete new one).
C21_ConcurrentSaveKept ==
    [][ (commit_pc # "idle" /\ commit_pc' = "idle"
         /\ pending_state # commit_arg)
        => /\ pending_write'
           /\ pending_state' = pending_state
           /\ last_op' = "commit_ok"
                => DurableRecord' \in {commit_arg, pending_state} ]_vars

(***************************************************************************)
(* Properties of the orchestrator.                                         *)
(***************************************************************************)
AppRecord == LedState(app_pwm_enabled, app_current_position)

\* C3: once the orchestrator's (enabled, brightness) has been at rest for a
\* debounce window and the main loop has run its check, with every store
\* operation succeeding, the medium holds the orchestrator's current
\* (enabled, brightness).
C3_SettledStateIsStored ==
    ( /\ app_pc = "delay"
      /\ commit_pc = "idle"
      /\ last_op \in {"check_idle", "commit_ok"}
      /\ ~io_failed
      /\ clock - app_changed_at >= FLASH_WRITE_DEBOUNCE_MS )
    => DurableRecord = AppRecord

\* C22: the orchestrator toggles the enable flag once per confirmed
\* touch-down: whenever an iteration of the main loop has handled the touch
\* counter, the number of toggles performed equals the number of increments
\* of touch_event_count, however the touch task and the loop interleave.
C22_OneTogglePerTouch ==
    [][ (app_pc = "loop" /\ app_pc' = "delay")
        => app_toggles' = touch_event_count' ]_vars

\* C23: after a restart whose store operations succeed, and while no
\* input changes, the orchestrator's (enabled, brightness) and the encoder
\* position are those of the record the medium held at the restart; no
\* rotation or toggle is handled, no save request is made, nothing becomes
\* pending and the medium is not written.
C23_RestartRestoresRecord ==
    (restarts > 0 /\ app_pc \in {"loop", "delay"} /\ ~io_failed)
    => /\ AppRecord = stable_rec
       /\ encoder_position = stable_rec.pwm_value
       /\ DurableRecord = stable_rec
       /\ app_changed_at = 0
       /\ app_toggles = 0
       /\ last_req = NoRequest
       /\ ~pending_write
       /\ commit_pc = "idle"
       /\ last_write_at = NoWrite

\* The device was reset with (true,200), which only the program can have
\* written, on the medium, has restored it and has run for a debounce
\* window since.
C23_Witness ==
    /\ restarts > 0
    /\ app_pc = "delay"
    /\ ~io_failed
    /\ AppRecord = LedState(TRUE, 200)
    /\ encoder_position = 200
    /\ DurableRecord = LedState(TRUE, 200)
    /\ clock >= FLASH_WRITE_DEBOUNCE_MS
    /\ last_op = "check_idle"

\* C28: when the mutex of the encoder or of the touch sensor cannot be
\* created, the failure is reported to app_init_all_modules, so that the
\* orchestrator does not go on to restore and poll as if every component
\* had initialised, and never calls into a component without its mutex.
C28_InitFailureReported ==
    [][ /\ (app_pc = "init" /\ app_pc' = "restore")
           => mutexes' = AllMutexes
        /\ app_pc' # "panic" ]_vars

BrightnessInRange(value) == value >= 0 /\ value <= 255

\* C27: whatever the store held at start-up, the brightness of the pending
\* candidate (which is the record handed to the store by a commit), of the
\* baseline nvs_manager_get_last_state returns and of the orchestrator's
\* current_position is within [0,255] in every reachable state.
C27_BrightnessInRange ==
    /\ BrightnessInRange(pending_state.pwm_value)
    /\ BrightnessInRange(nvs_manager_get_last_state.pwm_value)
    /\ BrightnessInRange(app_current_position)

(***************************************************************************)
(* Properties of the encoder.                                              *)
(***************************************************************************)
\* C8: in every reachable state of the encoder task interleaved with the
\* callers of encoder_set_position, encoder_reset_position and the other
\* API functions, 0 <= encoder_position <= 255.
C8_PositionInRange ==
    /\ encoder_position >= 0
    /\ encoder_position <= 255

\* A clockwise step is about to be applied at the upper limit, which a call
\* of the API has had a part in reaching.
C8_Witness ==
    /\ encoder_position = 255
    /\ api_calls > 0
    /\ enc_pc = "update"
    /\ direction = 1

\* The update of encoder_update_position over every position and scale.
StepTable ==
    \A p \in 0..255 : \A s \in {1, 2, 5} :
        /\ encoder_step(p, 1, s) = Min(p + s, 255)
        /\ encoder_step(p, 0 - 1, s) = Max(p - s, 0)

\* C9: the locked update of a decoded step moves the position p it finds,
\* with the scale s the step read, to min(p + s, 255) when clockwise and to
\* max(p - s, 0) when counter-clockwise, and leaves it alone otherwise; the
\* same holds of the update applied to every p in 0..255 and s in {1,2,5}.
C9_SaturatingStep ==
    [][ (enc_pc = "update" /\ enc_pc' = "button")
        => /\ scale \in {1, 2, 5}
           /\ encoder_position \in 0..255
           /\ direction = 1
                => encoder_position' = Min(encoder_position + scale, 255)
           /\ direction = 0 - 1
                => encoder_position' = Max(encoder_position - scale, 0)
           /\ direction = 0 => encoder_position' = encoder_position
           /\ StepTable ]_vars

\* A clockwise step with scale 5 from 250 has ended at 255.
C9_Witness ==
    /\ enc_pc = "button"
    /\ direction = 1
    /\ scale = 5
    /\ old_pos = 250
    /\ encoder_position = 255

\* The clockwise cycle of phase codes 00 -> 01 -> 11 -> 10 -> 00.
CwCycle == <<0, 1, 3, 2>>
Follows(a, b) ==
    \E i \in 1..4 : CwCycle[i] = a /\ CwCycle[(i % 4) + 1] = b
ExpectedDirection(prev, curr) ==
    IF Follows(prev, curr) THEN 1
    ELSE IF Follows(curr, prev) THEN 0 - 1
    ELSE 0

\* C10: a sample whose phase code differs from the previous one decodes
\* +1 exactly when the pair is on the cycle 00->01->11->10->00, -1 exactly
\* when it is on the mirrored cycle, 0 for the non-adjacent pairs; a sample
\* with the same code is not decoded and ends the iteration with the
\* position as it was.
C10_DirectionTable ==
    [][ (enc_pc = "sample" /\ enc_pc' # "sample")
        => LET prev == PhaseCode(last_clk_state, last_dt_state)
               curr == PhaseCode(clk_state', dt_state')
           IN IF prev # curr
              THEN /\ enc_pc' = "update"
                   /\ direction' = ExpectedDirection(prev, curr)
              ELSE /\ enc_pc' = "button"
                   /\ encoder_position' = encoder_position ]_vars

\* The pair 10 -> 00, which closes the clockwise cycle, has been decoded.
C10_Witness ==
    /\ enc_pc = "update"
    /\ PhaseCode(last_clk_state, last_dt_state) = 2
    /\ PhaseCode(clk_state, dt_state) = 0
    /\ direction = 1

\* The decoder's shared state.
DecoderShared ==
    <<encoder_position, current_scale_index, button_press_count,
      button_pressed>>

\* The pair of phase codes differs in both bits.
NonAdjacent(prev, curr) == prev + curr = 3

\* C11: a poll that observes a non-adjacent pair of phase codes decodes
\* direction 0 and, in its sampling step and in its update step, leaves the
\* position, the scale index, the button press count and the button flag
\* as they were.
C11_NonAdjacentPairIgnored ==
    [][ /\ ( /\ enc_pc = "sample"
             /\ enc_pc' = "update"
             /\ NonAdjacent(PhaseCode(last_clk_state, last_dt_state),
                            PhaseCode(clk_state', dt_state')) )
           => (direction' = 0 /\ UNCHANGED DecoderShared)
        /\ ( /\ enc_pc = "update"
             /\ enc_pc' = "button"
             /\ NonAdjacent(PhaseCode(last_clk_state, last_dt_state),
                            PhaseCode(clk_state, dt_state)) )
           => UNCHANGED DecoderShared ]_vars

\* The update step of a poll that saw a changed pair and decoded no
\* direction has run.
C11_Witness ==
    /\ enc_pc = "button"
    /\ scale # 0
    /\ direction = 0
    /\ encoder_position > 0
    /\ old_pos = encoder_position

\* C12: between two consecutive button samples of the encoder task, a
\* change from unasserted to asserted adds one to button_press_count,
\* advances the scale index by one modulo 3 and sets button_pressed; a
\* change from asserted to unasserted clears button_pressed and keeps count
\* and index; an unchanged level keeps count, index and flag.
C12_ButtonEdges ==
    [][ (enc_pc = "button" /\ enc_pc' = "sample")
        => IF last_button_state' /\ ~last_button_state
           THEN /\ button_press_count' = button_press_count + 1
                /\ current_scale_index' = (current_scale_index + 1) % 3
                /\ button_pressed'
           ELSE IF ~last_button_state' /\ last_button_state
           THEN /\ ~button_pressed'
                /\ UNCHANGED <<button_press_count, current_scale_index>>
           ELSE UNCHANGED <<button_press_count, current_scale_index,
                            button_pressed>> ]_vars

\* The task has sampled asserted, unasserted, asserted: two presses counted.
C12_Witness ==
    /\ enc_iters = 3
    /\ api_calls = 0
    /\ button_press_count = 2
    /\ current_scale_index = 2
    /\ button_pressed

\* The scale factors in the order of selection.
ScaleCycle == <<1, 2, 5>>

\* C13: the scale index is always in 0..2, and after k press edges and
\* encoder_cycle_scale_factor calls the scale factor is the k-th of
\* 1, 2, 5, 1, 2, 5, ...: each such step moves it 1->2->5->1 and every
\* multiple of 3 steps brings the index back to where it started.
C13_ScaleCycle ==
    /\ current_scale_index >= 0
    /\ current_scale_index < 3
    /\ current_scale_index = scale_steps % 3
    /\ ScaleAt(current_scale_index) = ScaleCycle[(scale_steps % 3) + 1]

\* Three steps, by the button and by the API, have brought the index back.
C13_Witness ==
    /\ scale_steps = 3
    /\ button_press_count > 0
    /\ api_calls > 0
    /\ current_scale_index = 0

\* encoder_set_position over arguments below, inside and above the range.
SetPositionTable ==
    \A p \in (0 - 3)..(ENCODER_POS_MAX + 3) :
        encoder_set_position(p) = Max(0, Min(p, 255))

\* C25: a call of encoder_set_position(p) stores p clamped into [0,255] and
\* leaves the stored phase levels, the scale index, the button press count
\* and the button flag as they were; the next poll that reads the phase
\* lines at the levels last read ends with the position unchanged.
C25_SetPositionKeepsPhase ==
    [][ /\ api_calls' = api_calls + 1
           => /\ encoder_position' \in
                    {Max(0, Min(p, 255)) : p \in SetPositionInputs}
              /\ UNCHANGED <<last_clk_state, last_dt_state,
                             current_scale_index, button_press_count,
                             button_pressed>>
        /\ (enc_pc = "sample" /\ enc_pc' # "sample"
            /\ <<clk_state', dt_state'>> = phase_seen)
           => (enc_pc' = "button" /\ UNCHANGED encoder_position)
        /\ SetPositionTable ]_vars

\* The position was set to 250 before the first poll, and two polls that
\* read the lines at their idle-high levels have left it there.
C25_Witness ==
    /\ api_calls = 1
    /\ enc_iters = 3
    /\ enc_pc = "sample"
    /\ encoder_position = 250
    /\ phase_seen = <<1, 1>>
    /\ last_clk_state = 1
    /\ last_dt_state = 1

\* C26 as claimed: encoder_init samples the phase lines twice and seeds the
\* stored levels of both lines from the second sample, and the first poll
\* that reads the lines unchanged leaves the position as it was.
C26_InitSamplesTwice ==
    [][ /\ (enc_pc = "init" /\ enc_pc' # "init")
           => /\ init_reads' = 2
              /\ <<last_clk_state', last_dt_state'>> = phase_seen'
        /\ (enc_pc = "sample" /\ enc_pc' # "sample" /\ enc_iters = 1
            /\ <<clk_state', dt_state'>> = phase_seen)
           => (enc_pc' = "button" /\ UNCHANGED encoder_position) ]_vars

\* C26 amended: encoder_init reads each phase line once, after the settling
\* delay, and seeds the stored levels of both lines from that sample, so
\* the first poll that reads the lines unchanged leaves the position as it
\* was, whatever the idle levels are.
C26_InitSeedsBothLines ==
    [][ /\ (enc_pc = "init" /\ enc_pc' # "init")
           => /\ init_reads' = 1
              /\ <<last_clk_state', last_dt_state'>> = phase_seen'
        /\ (enc_pc = "sample" /\ enc_pc' # "sample" /\ enc_iters = 1
            /\ <<clk_state', dt_state'>> = phase_seen)
           => (enc_pc' = "button" /\ UNCHANGED encoder_position) ]_vars

\* The first poll after an initialisation with CLK low and DT high has read
\* the same levels and left the initial position.
C26_Witness ==
    /\ enc_iters = 1
    /\ api_calls = 0
    /\ enc_pc = "button"
    /\ init_reads = 1
    /\ phase_seen = <<0, 1>>
    /\ clk_state = 0
    /\ dt_state = 1
    /\ last_clk_state = 0
    /\ last_dt_state = 1
    /\ encoder_position = CONFIG_ENCODER_INITIAL_POS

\* C20: the decoder's shared state is read and written under the mutex
\* only, so that the scale factor a rotation step applies is the one in
\* force at the moment the position is updated, whatever calls of
\* encoder_cycle_scale_factor other tasks make meanwhile.
C20_StepUsesScaleInForce ==
    [][ (enc_pc = "update" /\ enc_pc' = "button" /\ direction # 0)
        => scale = ScaleAt(current_scale_index) ]_vars

(***************************************************************************)
(* Properties of the touch sensor.                                         *)
(***************************************************************************)
\* The last CONFIG_TOUCH_DEBOUNCE_COUNT raw samples all differ from `level`.
SustainedAgainst(window, level) ==
    /\ Len(window) = 5
    /\ \A i \in 1..5 : window[i] # level

TouchConfirmed == <<last_sensor_state, sensor_touched, touch_event_count>>

\* C14: a poll confirms no edge unless the raw line has differed from the
\* last confirmed level for 5 consecutive samples: while every run of
\* differing samples is shorter (a flicker, however often repeated),
\* last_sensor_state, sensor_touched and touch_event_count stay unchanged.
C14_FlickerConfirmsNothing ==
    [][ (touch_polls' = touch_polls + 1
         /\ ~SustainedAgainst(raw_window', last_sensor_state))
        => UNCHANGED TouchConfirmed ]_vars

\* Two flickers of four samples each have gone by without an edge.
C14_Witness ==
    /\ touch_polls = 10
    /\ raw_window = <<TRUE, TRUE, TRUE, TRUE, FALSE>>
    /\ since_edge = 10
    /\ ~last_sensor_state
    /\ ~sensor_touched
    /\ touch_event_count = 0
    /\ touch_resets = 0

\* C15: a poll confirms an edge exactly when the raw line has differed
\* from the last confirmed level for 5 consecutive samples; the edge takes
\* the confirmed level to the sampled one, adds 1 to touch_event_count when
\* it goes to touched and 0 when it goes to untouched; holding the level
\* afterwards confirms nothing more.
C15_SustainedChangeOneEdge ==
    [][ touch_polls' = touch_polls + 1
        => /\ SustainedAgainst(raw_window', last_sensor_state)
              <=> last_sensor_state' # last_sensor_state
           /\ last_sensor_state' # last_sensor_state
              => /\ last_sensor_state' = raw_window'[Len(raw_window')]
                 /\ sensor_touched' = last_sensor_state'
                 /\ touch_event_count' =
                       touch_event_count + (IF last_sensor_state' THEN 1
                                                                  ELSE 0)
           /\ (since_edge > 0 /\ since_edge < touch_polls
               /\ raw_window'[Len(raw_window')] = last_sensor_state)
              => UNCHANGED TouchConfirmed ]_vars

\* A touch was confirmed once and the level then held for five more polls.
C15_Witness ==
    /\ touch_event_count = 1
    /\ touch_resets = 0
    /\ last_sensor_state
    /\ sensor_touched
    /\ since_edge = 5
    /\ raw_window = <<TRUE, TRUE, TRUE, TRUE, TRUE>>

(***************************************************************************)
(* Properties of the start-up load.                                        *)
(***************************************************************************)
\* nvs_manager_load_led_state over every store, outcome of the reads and
\* caller's structure: a failed open or read hands back the defaults.
LoadTable ==
    \A store \in InitialStores, state \in SaveInputs, open_ok \in BOOLEAN,
       r_en \in ReadOutcomes, r_val \in ReadOutcomes :
        ( /\ open_ok => store # EmptyStore
          /\ ReadPossible(r_en, store.pwm_en)
          /\ ReadPossible(r_val, store.pwm_val)
          /\ \/ store = EmptyStore
             \/ LoadFailed(open_ok, r_en, r_val, store) )
        => nvs_manager_load_led_state(state, open_ok, r_en, r_val,
                                      store).state = DefaultLedState

\* C19: when nvs_manager_init loads from a store that is empty, or the open
\* or the read of either key fails, the baseline it caches is exactly the
\* defaults (true,155); and nvs_manager_load_led_state hands the defaults
\* back to any caller in each of those cases.
C19_FailedLoadYieldsDefaults ==
    [][ (app_pc = "init" /\ app_pc' = "restore")
        => /\ (io_failed' \/ nvs_flash' = EmptyStore)
              => last_saved_state' = DefaultLedState
           /\ LoadTable ]_vars

(***************************************************************************)
(* Properties of the LEDC driver.                                          *)
(***************************************************************************)
\* C30: for every requested duty d, a call of pwm_controller_set_brightness,
\* pwm_controller_set_brightness_ch1 or pwm_controller_set_brightness_ch2
\* that returns 0 makes the channels it drives output min(d,255) and caches
\* min(d,255) for them, leaving the other channel alone; and after any call
\* the duties pwm_controller_get_brightness_ch1 and
\* pwm_controller_get_brightness_ch2 report are within [0,255].
C30_SetBrightnessClampsDuty ==
    [][ LET applied == Min(pwm_req', CONFIG_PWM_MAX_DUTY)
        IN /\ (pwm_op' = "both" /\ pwm_ret' = 0)
              => /\ pwm_controller_get_brightness_ch1' = applied
                 /\ pwm_controller_get_brightness_ch2' = applied
                 /\ ledc_duty_ch1' = applied
                 /\ ledc_duty_ch2' = applied
           /\ (pwm_op' = "ch1" /\ pwm_ret' = 0)
              => /\ pwm_controller_get_brightness_ch1' = applied
                 /\ ledc_duty_ch1' = applied
                 /\ UNCHANGED <<current_duty_ch2, ledc_duty_ch2>>
           /\ (pwm_op' = "ch2" /\ pwm_ret' = 0)
              => /\ pwm_controller_get_brightness_ch2' = applied
                 /\ ledc_duty_ch2' = applied
                 /\ UNCHANGED <<current_duty_ch1, ledc_duty_ch1>>
           /\ pwm_controller_get_brightness_ch1' \in 0..CONFIG_PWM_MAX_DUTY
           /\ pwm_controller_get_brightness_ch2' \in 0..CONFIG_PWM_MAX_DUTY
      ]_vars

\* A duty above the maximum was requested of channel 2 and clamped, while
\* channel 1 keeps a duty set before.
C30_Witness ==
    /\ pwm_op = "ch2"
    /\ pwm_ret = 0
    /\ pwm_req > CONFIG_PWM_MAX_DUTY
    /\ current_duty_ch2 = CONFIG_PWM_MAX_DUTY
    /\ ledc_duty_ch2 = CONFIG_PWM_MAX_DUTY
    /\ current_duty_ch1 = 100

(***************************************************************************)
(* Properties of the value nvs_manager_check_pending_write returns.        *)
(***************************************************************************)
\* C31: nvs_manager_check_pending_write returns -1 exactly when it entered
\* nvs_manager_commit_write and a step of that write failed; it returns 0
\* when nothing is pending, when the debounce window has not elapsed, and
\* when the write succeeded.
C31_CheckResultReportsFailure ==
    [][ /\ last_op' = "check_idle"
           => /\ check_result' = 0
              /\ \/ ~pending_write
                 \/ ElapsedTime(tick_ms, pending_timestamp)
                       < FLASH_WRITE_DEBOUNCE_MS
        /\ last_op' = "check_commit"
           => /\ pending_write
              /\ ElapsedTime(tick_ms, pending_timestamp)
                    >= FLASH_WRITE_DEBOUNCE_MS
        /\ last_op' = "commit_ok"
           => /\ check_result' = 0
              /\ commit_pc = "commit"
              /\ DurableRecord' = pending_state
        /\ last_op' = "commit_failed"
           => /\ check_result' = 0 - 1
              /\ commit_pc \in {"open", "set_en", "set_val", "commit"}
        /\ check_result' # check_result
           => last_op' \in {"check_idle", "commit_ok", "commit_failed"}
      ]_vars

\* A check has just returned -1 from a write that failed.
C31_Witness ==
    /\ last_op = "commit_failed"
    /\ check_result = 0 - 1
    /\ ~pending_write
    /\ last_saved_state # pending_state

(***************************************************************************)
(* Properties of the committed baseline against the durable store.         *)
(***************************************************************************)
\* C32: once nvs_manager_init has cached a baseline, whenever no commit is
\* in progress the committed baseline last_saved_state equals the (enabled,
\* brightness) record the durable store holds, also after a commit or a load
\* of which one step succeeded and a later one failed.
C32_BaselineEqualsStore ==
    (boot_pc = "run" /\ state_cached /\ commit_pc = "idle")
    => last_saved_state = DurableRecord

(***************************************************************************)
(* Properties of the debounced touch flag.                                 *)
(***************************************************************************)
\* C33: after touch_sensor_init and after every poll of the touch task, the
\* flag touch_sensor_is_touched reports (sensor_touched) equals the last
\* confirmed raw level (last_sensor_state), whatever the level of the touch
\* line was at initialisation.
C33_TouchedFlagIsConfirmedLevel ==
    touch_pc = "run" => sensor_touched = last_sensor_state

(***************************************************************************)
(* Properties of the actuator under the orchestrator.                      *)
(***************************************************************************)
\* C34: at the end of every iteration of the loop of app_main, whether the
\* saved state was loaded or the defaults were substituted at start-up, the
\* duty both channels output equals current_position clamped to 255 when
\* pwm_enabled is true and 0 when it is false, and current_position equals
\* the encoder position read in that iteration.
C34_DutyFollowsState ==
    [][ (app_pc = "loop" /\ app_pc' = "delay")
        => LET duty == IF app_pwm_enabled'
                       THEN Min(app_current_position', CONFIG_PWM_MAX_DUTY)
                       ELSE 0
           IN /\ ledc_duty_ch1' = duty
              /\ ledc_duty_ch2' = duty
              /\ app_current_position' = encoder_position ]_vars

(***************************************************************************)
(* Properties of the touch events.                                         *)
(***************************************************************************)
\* C35: touch_event_count increases by at most 1 per poll, and between two
\* increments with no reset in between there is a poll at which a release
\* was confirmed and sensor_touched was false afterwards.
C35_TouchAndReleaseAlternate ==
    [][ /\ touch_polls' # touch_polls
           => /\ touch_event_count' \in {touch_event_count,
                                         touch_event_count + 1}
              /\ (touch_event_count' # touch_event_count
                  /\ touch_event_count > 0) => released
              /\ (released' /\ ~released)
                 => (~sensor_touched' /\ ~last_sensor_state'
                     /\ last_sensor_state)
        /\ touch_polls' = touch_polls => UNCHANGED released ]_vars

\* Two touch-down events with no reset in between.
C35_Witness ==
    /\ touch_event_count = 2
    /\ touch_resets = 0
    /\ sensor_touched
    /\ ~released

(***************************************************************************)
(* Properties of the debounce counter.                                     *)
(***************************************************************************)
\* The number of samples at the end of `window` that differ from `level`.
TrailingDiffering(window, level) ==
    LET runs == {k \in 0..Len(window) :
                    \A i \in (Len(window) - k + 1)..Len(window) :
                        window[i] # level}
    IN CHOOSE k \in runs : \A j \in runs : j <= k

\* C36: after every poll of the touch task the debounce counter is in
\* 0..4 and counts the samples in a row, up to the last one, that differ
\* from last_sensor_state; a poll confirms a level change exactly when its
\* sample is the 5th in a row that differs from last_sensor_state, so never
\* earlier and never on a run that a sample equal to last_sensor_state
\* interrupted.
C36_ConfirmAtFifthSample ==
    [][ touch_polls' = touch_polls + 1
        => LET sample == raw_window'[Len(raw_window')]
           IN /\ debounce_counter' >= 0
              /\ debounce_counter' < CONFIG_TOUCH_DEBOUNCE_COUNT
              /\ debounce_counter'
                    = TrailingDiffering(raw_window', last_sensor_state')
              /\ last_sensor_state' # last_sensor_state
                 <=> /\ sample # last_sensor_state
                     /\ debounce_counter = CONFIG_TOUCH_DEBOUNCE_COUNT - 1
              /\ sample = last_sensor_state
                 => (debounce_counter' = 0 /\ UNCHANGED last_sensor_state)
      ]_vars

\* A touch confirmed at the seventh poll: the run of five began at the
\* third.
C36_Witness ==
    /\ touch_polls = 7
    /\ since_edge = 0
    /\ debounce_counter = 0
    /\ last_sensor_state
    /\ touch_event_count = 1
    /\ touch_resets = 0

(***************************************************************************)
(* Properties of the stored phase code.                                    *)
(***************************************************************************)
\* C37: when a call of encoder_update_position returns, last_clk_state and
\* last_dt_state are the levels sampled in that call, also when the
\* transition observed was invalid; and every transition is decoded from
\* the levels of the most recent sample to the levels of this one.
C37_PhaseFollowsEverySample ==
    [][ /\ (enc_pc \in {"sample", "update"} /\ enc_pc' = "button")
           => /\ <<last_clk_state', last_dt_state'>> = phase_seen'
              /\ <<last_clk_state', last_dt_state'>>
                    = <<clk_state', dt_state'>>
        /\ (enc_pc = "sample" /\ enc_pc' = "update")
           => direction' = Direction(PhaseCode(phase_seen[1], phase_seen[2]),
                                     PhaseCode(clk_state', dt_state'))
      ]_vars

\* A call has returned in which both lines had changed (an invalid
\* transition): the position is as before and the stored levels are the
\* sampled ones.
C37_Witness ==
    /\ enc_pc = "button"
    /\ enc_iters >= 1
    /\ scale # 0
    /\ direction = 0
    /\ old_pos = encoder_position
    /\ <<last_clk_state, last_dt_state>> = <<clk_state, dt_state>>
    /\ <<clk_state, dt_state>> = <<1, 1>>

(***************************************************************************)
(* Properties of the first button sample.                                  *)
(***************************************************************************)
\* C38: the encoder task changes button_press_count and the scale index
\* only when two consecutive samples of the button it has taken go from
\* unasserted to asserted: at its first poll, where no earlier sample
\* exists, an asserted button counts no press and leaves the scale factor
\* at 1.
C38_FirstSampleCountsNoPress ==
    [][ (enc_pc = "button" /\ enc_pc' = "sample")
        => /\ (button_press_count' # button_press_count
               \/ current_scale_index' # current_scale_index)
              => (enc_iters >= 1 /\ ~last_button_state
                  /\ last_button_state')
           /\ enc_iters = 0
              => (button_press_count' = 0
                  /\ ScaleAt(current_scale_index') = 1) ]_vars

(***************************************************************************)
(* Properties of the elapsed time across a wrap of the tick counter.       *)
(***************************************************************************)
\* The elapsed time computed from a counter that has advanced by `passed`
\* since the timestamp, for timestamps before a wrap.
ElapsedTable ==
    \A timestamp \in StartTicks \cup {TICK_MOD - 1},
       passed \in {0, 1, FLASH_WRITE_DEBOUNCE_MS - 1, FLASH_WRITE_DEBOUNCE_MS,
                   TICK_MOD - 1} :
        ElapsedTime((timestamp + passed) % TICK_MOD, timestamp) = passed

\* C39: the elapsed time of nvs_manager_check_pending_write is the
\* difference modulo the width of the counter, so when the counter has
\* wrapped since the request (it reads less than pending_timestamp) a check
\* goes on to the write exactly when 5000 ms or more of real time have passed
\* since the request: the first such check commits and no earlier one does.
C39_WindowAcrossWrap ==
    [][ /\ (pending_write /\ last_op' \in CheckOps
            /\ tick_ms < pending_timestamp)
           => /\ ElapsedTime(tick_ms, pending_timestamp) = clock - req_at
              /\ last_op' = "check_commit"
                 <=> clock - req_at >= FLASH_WRITE_DEBOUNCE_MS
        /\ ElapsedTable ]_vars

\* A request made before the wrap has been written by a check made after
\* it, 5000 ms later.
C39_Witness ==
    /\ last_op = "commit_ok"
    /\ tick_ms < pending_timestamp
    /\ clock - req_at = FLASH_WRITE_DEBOUNCE_MS
    /\ DurableRecord = pending_state

(***************************************************************************)
(* Properties of a failed pwm_controller_set_brightness.                   *)
(***************************************************************************)
\* C40: pwm_controller_set_brightness is all-or-nothing.  Called while both
\* channels output the same duty and the cached duties are the ones the
\* channels output, it returns, with 0 or with -1 from any of its four LEDC
\* calls, in a state where both channels output the same duty and
\* pwm_controller_get_brightness_ch1 and pwm_controller_get_brightness_ch2
\* report the duties the channels output.
C40_SetBrightnessAllOrNothing ==
    [][ ( /\ pwm_op' = "both"
          /\ ledc_duty_ch1 = ledc_duty_ch2
          /\ pwm_controller_get_brightness_ch1 = ledc_duty_ch1
          /\ pwm_controller_get_brightness_ch2 = ledc_duty_ch2 )
        => /\ ledc_duty_ch1' = ledc_duty_ch2'
           /\ pwm_controller_get_brightness_ch1' = ledc_duty_ch1'
           /\ pwm_controller_get_brightness_ch2' = ledc_duty_ch2' ]_vars

====
